---- MODULE Spec2Model ----
(***************************************************************************)
(* Verification model of kaeose/docker-manager: the HTTP/WebSocket gateway *)
(* (internal/api, internal/service), the systemd service shim and the      *)
(* browser event dispatcher (static app.js).                               *)
(*                                                                         *)
(* The module holds one state machine per component.  Every component has  *)
(* its own variables, its own initial predicate and its own next-state     *)
(* relation; a specification of one component pins the variables of the    *)
(* other components to their idle values.                                  *)
(***************************************************************************)
EXTENDS Integers, Sequences, FiniteSets, TLC

(***************************************************************************)
(* Bounds of the model (not program constants).                            *)
(***************************************************************************)
MaxContainers == 3
MaxRequests == 2
MaxLines == 3
MaxSockets == 2
MaxEvents == 3
MaxTicks == 6
MaxRelayEvents == 2
MaxTcpPieces == 4
MaxCalls == 2
MaxPeriods == 8
MaxChanges == 2
MaxFetches == 3
MaxReads == 2
MaxJournalLines == 2
MaxStatusLines == 2
MaxShowLines == 1
MaxLogLines == 2

(***************************************************************************)
(* Generic helpers.                                                        *)
(***************************************************************************)
SeqsUpTo(S, n) == UNION {[1..k -> S] : k \in 0..n}

Range(s) == {s[i] : i \in DOMAIN s}

(***************************************************************************)
(* ---------------------------- Docker gateway --------------------------- *)
(***************************************************************************)
VARIABLES
    dContainers,   \* daemon: State string of every container (ContainerList, All: true)
    dImages,       \* daemon: Size of every image (ImageList)
    dNetworks,     \* daemon: number of networks (NetworkList)
    dVolumes,      \* daemon: number of volumes (VolumeList)
    resp,          \* the response the gateway wrote for the last request
    stats,         \* the SystemStats values encoded into the last response (none or one)
    served,        \* number of requests the server has handled
    failures,      \* history: number of requests answered with status 500
    serverUp       \* the HTTP server process is alive and serving

gatewayVars ==
    <<dContainers, dImages, dNetworks, dVolumes, resp, stats, served, failures, serverUp>>

\* The systemd service shim.
VARIABLES
    svcOutput,     \* the lines `systemctl list-units` printed
    services,      \* the slice GetSystemdServices returned
    svcPc          \* "call" before GetSystemdServices ran, "done" after

servicesVars == <<svcOutput, services, svcPc>>

\* The browser client.
VARIABLES
    currentTab,       \* this.currentTab
    ws,               \* this.ws: the index of a socket in `sockets`, 0 for null
    sockets,          \* every WebSocket object created so far, in creation order
    timers,           \* due times of the pending setTimeout(setupWebSocket) timers
    now,              \* Date.now()
    lastRefreshTime,  \* this.lastRefreshTime
    eventCount,       \* this.eventCount
    stream,           \* children of #events-stream, first child first: the number of
                      \* the event an item shows, 0 for a placeholder
    connStatus,       \* text of #connection-status
    delivered,        \* history: number of messages handed to handleDockerEvent
    gateLog,          \* history: the smartRefresh calls, with time and outcome
    detached,         \* history: the sockets closeWebSocket has acted on
    step              \* history: the handler that ran last, its inputs and effects

clientVars ==
    <<currentTab, ws, sockets, timers, now, lastRefreshTime, eventCount, stream,
      connStatus, delivered, gateLog, detached, step>>

\* The event relay loops.
VARIABLES
    relay          \* per request: the handler's position and what it has written

relayVars == <<relay>>

\* The host snapshot (service.GetHostSystemInfo and its handler).
VARIABLES
    procUnreadable,  \* the /proc files whose ReadFile fails
    procUptime,      \* text of /proc/uptime, as pieces
    procLoadavg,     \* text of /proc/loadavg, as pieces
    procMeminfo,     \* /proc/meminfo: its lines, each as pieces
    procNetTcp,      \* text of /proc/net/tcp, as pieces (line text and "\n")
    hostInfo,        \* the HostSystemInfo values encoded into the response (none or one)
    hostStatus       \* status of the response to GET /api/system/host, 0 before it

hostVars ==
    <<procUnreadable, procUptime, procLoadavg, procMeminfo, procNetTcp, hostInfo,
      hostStatus>>

\* The process from start to serving (cmd/server main).
VARIABLES
    flagPort,        \* value of the -port flag, "" when not given
    envPort,         \* value of DOCKER_MANAGER_PORT, "" when unset
    newClientErr,    \* what client.NewClientWithOpts returns as error
    dockerClient,    \* service.DockerClient: "nil" or "client"
    mainPc,          \* position of main
    listenAddr,      \* the address handed to http.ListenAndServe, "" before
    handledBy        \* the value of DockerClient each handled request saw

mainVars ==
    <<flagPort, envPort, newClientErr, dockerClient, mainPc, listenAddr, handledBy>>

\* The browser client's fetches.
VARIABLES
    fetchStep,       \* the client operation that ran last and what it did
    fetchCount       \* number of client operations run

fetchVars == <<fetchStep, fetchCount>>

\* The browser client's interval timers.
VARIABLES
    refreshDue,      \* when the setInterval of startPeriodicRefresh fires next
    hostInfoDue      \* when the setInterval of startHostInfoRefresh fires next

periodicVars == <<refreshDue, hostInfoDue>>

\* GetSystemStats call by call, with the daemon changing in between.
VARIABLES
    statsStep,       \* the list call GetSystemStats makes next (1..4), 5 once it returned
    listed,          \* the lists its calls have returned so far
    atCall,          \* history: the daemon's lists at the moment of each call
    instants         \* history: the daemon's lists at every instant since the request

snapshotVars == <<statsStep, listed, atCall, instants>>

\* The dashboard's stats fetches in flight.
VARIABLES
    daemonVersion,   \* how often the daemon's state has changed
    requests,        \* every fetch of /api/system/stats issued, in issue order:
                     \* <<status, daemon version its response carries, caller>>
    shown            \* the snapshot on the dashboard: <<issue number, daemon version>>

overlapVars == <<daemonVersion, requests, shown>>

\* The container logs endpoint.
VARIABLES
    tailQuery,       \* the tail query parameter, "" when absent
    logsOpenErr,     \* the error of DockerClient.ContainerLogs
    logReads,        \* what the Read calls on the log stream return, in order:
                     \* <<bytes, err>> each, the last one with an error
    optionsTail,     \* options.Tail as handed to the daemon, "" before the call
    logsBody,        \* the bytes written to the response
    logsStatus       \* status of the response, 0 before it

containerLogsVars ==
    <<tailQuery, logsOpenErr, logReads, optionsTail, logsBody, logsStatus>>

\* The service logs endpoint and its journalctl subprocess.
VARIABLES
    linesQuery,      \* the lines query parameter, "" when absent
    followQuery,     \* the follow query parameter, "" when absent
    journalArgs,     \* the arguments of the journalctl subprocess, <<>> before it starts
    journalProc,     \* "none", "running", "exited" (status 0) or "failed"
    journalOut,      \* the lines the subprocess has written to its stdout so far
    svcLogsBody,     \* the bytes written to the response
    svcLogsStatus    \* status of the response, 0 before it

serviceLogsVars ==
    <<linesQuery, followQuery, journalArgs, journalProc, journalOut, svcLogsBody,
      svcLogsStatus>>

\* The service detail endpoint and its three subprocesses.
VARIABLES
    statusRun,       \* `systemctl status`: <<err, lines of its output>>
    showRun,         \* `systemctl show`: <<err, lines of its output>>
    logsRun,         \* `journalctl`: <<err, lines of its output>>
    detail,          \* the SystemdServiceDetail values returned (none or one)
    detailOutcome    \* "none" before the request, then "ok", "error" or "panic"

detailVars == <<statusRun, showRun, logsRun, detail, detailOutcome>>

\* The components of the later sections.
restVars ==
    <<periodicVars, snapshotVars, overlapVars, containerLogsVars, serviceLogsVars,
      detailVars>>

vars ==
    <<gatewayVars, servicesVars, clientVars, relayVars, hostVars, mainVars, fetchVars,
      restVars>>

\* Container state strings the daemon may report.
ContainerStates == {"running", "paused", "exited", "created", "Running", ""}

\* models.SystemStats zero value.
ZeroStats ==
    [Running |-> 0, Paused |-> 0, Stopped |-> 0, Total |-> 0,
     Images |-> 0, Size |-> 0, Networks |-> 0, Volumes |-> 0]

\* A nil error of a Docker call or of a subprocess.
Nil == "nil"

\* Error texts (err.Error()) a Docker call may fail with.
ErrTexts == {"daemon unreachable", "no such container"}

\* Error texts a systemctl/journalctl subprocess may fail with.
ExecErrTexts == {"exit status 1", "executable file not found"}

Nils(n) == [i \in 1..n |-> Nil]

\* The outcomes of the calls a function performs when it runs up to n calls
\* in sequence and returns at the first error: all n succeed, or the first
\* k-1 succeed and call k fails with e.
CallRuns(n, errs) ==
    {Nils(n)} \cup {Append(Nils(k - 1), e) : k \in 1..n, e \in errs}

\* The error a chain of `if err != nil { return nil, err }` returns.
FirstError(calls) ==
    IF \E i \in DOMAIN calls : calls[i] # Nil
    THEN calls[CHOOSE i \in DOMAIN calls :
                   calls[i] # Nil /\ \A j \in 1..(i - 1) : calls[j] = Nil]
    ELSE Nil

NoResponse == [calls |-> <<>>, handler |-> "none", status |-> 0, body |-> <<>>]

\* http.Error(w, text, http.StatusInternalServerError): the status line and
\* the text followed by a newline; `pieces` are the parts of the text.
HttpError(handler, pieces, calls) ==
    [calls |-> calls, handler |-> handler, status |-> 500, body |-> pieces \o <<"\n">>]

\* A 200 response carrying the encoded success value.
HttpOK(handler, value, calls) ==
    [calls |-> calls, handler |-> handler, status |-> 200, body |-> <<value>>]

RECURSIVE SumSizes(_)
SumSizes(imgs) == IF imgs = <<>> THEN 0 ELSE Head(imgs) + SumSizes(Tail(imgs))

\* The switch of GetSystemStats over container.State, one container at a time.
CountContainerMutant(acc, state) ==
    CASE state = "running" -> [acc EXCEPT !.Running = @ + 1]
      [] state = "paused"  -> [acc EXCEPT !.Paused = @ + 1]
      [] state = "exited"  -> [acc EXCEPT !.Stopped = @ + 1]
      [] OTHER             -> acc

CountContainer(acc, state) ==
    CASE state = "running" -> [acc EXCEPT !.Running = @ + 1]
      [] state = "paused"  -> [acc EXCEPT !.Paused = @ + 1]
      [] OTHER             -> [acc EXCEPT !.Stopped = @ + 1]

RECURSIVE CountContainers(_, _)
CountContainers(acc, containers) ==
    IF containers = <<>> THEN acc
    ELSE CountContainers(CountContainer(acc, Head(containers)), Tail(containers))

\* service.GetSystemStats on success: the stats built from the four lists.
BuildStats(containers, images, networks, volumes) ==
    [CountContainers([ZeroStats EXCEPT !.Total = Len(containers)], containers)
        EXCEPT !.Images = Len(images), !.Size = SumSizes(images),
               !.Networks = networks, !.Volumes = volumes]

\* The daemon states of the stats check: every container list of the model.
StatsInit ==
    /\ dContainers \in SeqsUpTo(ContainerStates, MaxContainers)
    /\ dImages \in {<<>>, <<10, 20>>}
    /\ dNetworks = 2
    /\ dVolumes = 1
    /\ resp = NoResponse
    /\ stats = <<>>
    /\ served = 0
    /\ failures = 0
    /\ serverUp = TRUE

GatewayInit ==
    /\ dContainers \in {<<>>, <<"running", "exited", "paused">>}
    /\ dImages = <<10, 20>>
    /\ dNetworks = 2
    /\ dVolumes = 1
    /\ resp = NoResponse
    /\ stats = <<>>
    /\ served = 0
    /\ failures = 0
    /\ serverUp = TRUE

GatewayIdle ==
    /\ dContainers = <<>>
    /\ dImages = <<>>
    /\ dNetworks = 0
    /\ dVolumes = 0
    /\ resp = NoResponse
    /\ stats = <<>>
    /\ served = 0
    /\ failures = 0
    /\ serverUp = TRUE

\* What every handler leaves behind: the response, the stats it encoded (if
\* any) and one more request served; the daemon and the process are untouched.
Respond(r, s) ==
    /\ serverUp
    /\ served < MaxRequests
    /\ resp' = r
    /\ stats' = s
    /\ served' = served + 1
    /\ failures' = IF r.status = 500 THEN failures + 1 ELSE failures
    /\ UNCHANGED <<dContainers, dImages, dNetworks, dVolumes, serverUp>>
    /\ UNCHANGED <<servicesVars, clientVars, relayVars, hostVars, mainVars, fetchVars, restVars>>

\* A handler whose service function runs n Docker calls and fails on the first error.
DockerHandler(handler, n, value) ==
    \E calls \in CallRuns(n, ErrTexts) :
        Respond(IF FirstError(calls) # Nil
                THEN HttpError(handler, <<FirstError(calls)>>, calls)
                ELSE HttpOK(handler, value, calls),
                <<>>)

GetDockerInfo == DockerHandler("GetDockerInfo", 7, "json:info")

GetContainers == DockerHandler("GetContainers", 1, "json:containers")

\* service.GetContainerDetail: ContainerInspect must succeed; for a running
\* container ContainerStats is tried and its failure (or a decode failure)
\* only leaves detail.Stats nil.
GetContainerDetail ==
    \E inspect \in {Nil} \cup ErrTexts, running \in BOOLEAN, st \in {Nil} \cup ErrTexts :
        LET calls == IF inspect = Nil /\ running THEN <<inspect, st>> ELSE <<inspect>>
        IN Respond(IF inspect # Nil
                   THEN HttpError("GetContainerDetail", <<inspect>>, calls)
                   ELSE IF running /\ st = Nil
                        THEN HttpOK("GetContainerDetail", "json:detail+stats", calls)
                        ELSE HttpOK("GetContainerDetail", "json:detail", calls),
                   <<>>)

StartContainer == DockerHandler("StartContainer", 1, "json:{status:started}")

StopContainer == DockerHandler("StopContainer", 1, "json:{status:stopped}")

RestartContainer == DockerHandler("RestartContainer", 1, "json:{status:restarted}")

GetImages == DockerHandler("GetImages", 1, "json:images")

GetNetworks == DockerHandler("GetNetworks", 1, "json:networks")

GetVolumes == DockerHandler("GetVolumes", 1, "json:volumes")

\* service.GetSystemStats: the four list calls in order (all against the
\* daemon state of this step), then the counting.
ServiceGetSystemStatsMutant(calls) ==
    <<BuildStats(dContainers, dImages, dNetworks, dVolumes)>>

ServiceGetSystemStats(calls) ==
    IF FirstError(calls) # Nil THEN <<>>
    ELSE <<BuildStats(dContainers, dImages, dNetworks, dVolumes)>>

GetSystemStats ==
    \E calls \in CallRuns(4, ErrTexts) :
        Respond(IF FirstError(calls) # Nil
                THEN HttpError("GetSystemStats", <<FirstError(calls)>>, calls)
                ELSE HttpOK("GetSystemStats", "json:stats", calls),
                ServiceGetSystemStats(calls))

\* A handler that runs one systemctl subprocess and reports its failure as
\* fmt.Sprintf(prefix + ": %v", err).
SystemdHandler(handler, prefix, value) ==
    \E calls \in CallRuns(1, ExecErrTexts) :
        Respond(IF FirstError(calls) # Nil
                THEN HttpError(handler, <<prefix, FirstError(calls)>>, calls)
                ELSE HttpOK(handler, value, calls),
                <<>>)

GetSystemdServices ==
    SystemdHandler("GetSystemdServices", "Failed to get services: ", "json:services")

\* service.GetSystemdServiceDetail fails only when `systemctl status` fails;
\* `systemctl show` and `journalctl` are run afterwards and their errors dropped.
GetSystemdServiceDetail ==
    \E status \in {Nil} \cup ExecErrTexts, show \in {Nil} \cup ExecErrTexts,
       journal \in {Nil} \cup ExecErrTexts :
        LET calls == IF status = Nil THEN <<status, show, journal>> ELSE <<status>>
        IN Respond(IF status # Nil
                   THEN HttpError("GetSystemdServiceDetail",
                                  <<"Failed to get service detail: ", status>>, calls)
                   ELSE HttpOK("GetSystemdServiceDetail", "json:servicedetail", calls),
                   <<>>)

StartSystemdService ==
    SystemdHandler("StartSystemdService", "Failed to start service: ",
                   "json:{status:success,message:Service started}")

StopSystemdService ==
    SystemdHandler("StopSystemdService", "Failed to stop service: ",
                   "json:{status:success,message:Service stopped}")

RestartSystemdService ==
    SystemdHandler("RestartSystemdService", "Failed to restart service: ",
                   "json:{status:success,message:Service restarted}")

EnableSystemdService ==
    SystemdHandler("EnableSystemdService", "Failed to enable service: ",
                   "json:{status:success,message:Service enabled}")

DisableSystemdService ==
    SystemdHandler("DisableSystemdService", "Failed to disable service: ",
                   "json:{status:success,message:Service disabled}")

\* The routes of NewRouter that answer with one response.
GatewayNext ==
    \/ GetDockerInfo
    \/ GetContainers
    \/ GetContainerDetail
    \/ StartContainer
    \/ StopContainer
    \/ RestartContainer
    \/ GetImages
    \/ GetNetworks
    \/ GetVolumes
    \/ GetSystemStats
    \/ GetSystemdServices
    \/ GetSystemdServiceDetail
    \/ StartSystemdService
    \/ StopSystemdService
    \/ RestartSystemdService
    \/ EnableSystemdService
    \/ DisableSystemdService

(***************************************************************************)
(* ------------------------- systemd service shim ------------------------ *)
(* A line of subprocess output is a sequence of pieces: words (maximal     *)
(* runs of non-space characters) and runs of white space.                  *)
(***************************************************************************)
\* Runs of white space (unicode.IsSpace) that occur in the texts of the model.
WhiteSpace == {" ", "  ", "\t", "\n"}

IsSpace(piece) == piece \in WhiteSpace

\* strings.Fields: the words of a line.
Fields(line) == SelectSeq(line, LAMBDA piece : ~IsSpace(piece))

RECURSIVE TrimLeft(_)
TrimLeft(line) ==
    IF line # <<>> /\ IsSpace(Head(line)) THEN TrimLeft(Tail(line)) ELSE line

RECURSIVE TrimRight(_)
TrimRight(line) ==
    IF line # <<>> /\ IsSpace(line[Len(line)])
    THEN TrimRight(SubSeq(line, 1, Len(line) - 1)) ELSE line

\* strings.TrimSpace
TrimSpace(line) == TrimRight(TrimLeft(line))

\* A join that puts nothing between the words.
JoinMutant(words) == words

\* strings.Join(words, " ")
RECURSIVE Join(_)
Join(words) ==
    IF Len(words) <= 1 THEN words
    ELSE <<Head(words), " ">> \o Join(Tail(words))

\* strings.TrimSuffix(unit, ".service") on the unit names of the model.
TrimSuffixService(unit) ==
    CASE unit = "a.service" -> "a"
      [] unit = "b.service" -> "b"
      [] unit = "c.service" -> "c"
      [] unit = "x.service" -> "x"
      [] unit = "y.service" -> "y"
      [] OTHER -> unit

\* The strings the comparator may compare, in Go's (byte-wise) string order.
ByteOrder == <<"*", "a", "b", "c", "dead", "exited", "failed", "inactive", "running">>

StrPos(str) == CHOOSE i \in DOMAIN ByteOrder : ByteOrder[i] = str

\* Go's < on strings.
StrLess(x, y) == StrPos(x) < StrPos(y)

\* Lines as `systemctl list-units --type=service --all --no-pager --no-legend`
\* prints them; a unit that is failed or not found is marked in a leading column.
SampleLines ==
    { <<"b.service", " ", "loaded", " ", "active", " ", "exited", " ", "Service", "  ", "B">>,
      <<"a.service", " ", "loaded", " ", "active", " ", "running", " ", "Service", " ", "A">>,
      <<"c.service", "  ", "loaded", " ", "active", " ", "exited">>,
      <<"*", " ", "x.service", " ", "not-found", " ", "inactive", " ", "dead", " ", "x.service">>,
      <<"*", " ", "y.service", " ", "not-found", " ", "inactive", " ", "dead", " ", "y.service">>,
      <<"  ">>,
      <<"c.service", " ", "loaded", " ", "failed">> }

\* The body of the scanner loop: the service a line yields, if it yields one.
ParseLine(rawLine) ==
    LET line == TrimSpace(rawLine)
        fields == Fields(line)
    IN IF line = <<>> THEN <<>>
       ELSE IF Len(fields) >= 4
            THEN << [Unit |-> fields[1],
                     Name |-> TrimSuffixService(fields[1]),
                     LoadState |-> fields[2],
                     ActiveState |-> fields[3],
                     SubState |-> fields[4],
                     Description |-> IF Len(fields) > 4
                                     THEN Join(SubSeq(fields, 5, Len(fields)))
                                     ELSE <<>>] >>
            ELSE <<>>

RECURSIVE ParseUnits(_)
ParseUnits(lines) ==
    IF lines = <<>> THEN <<>> ELSE ParseLine(Head(lines)) \o ParseUnits(Tail(lines))

\* The less function handed to sort.Slice.
ServiceLessMutant(si, sj) ==
    IF si.SubState = "running" /\ sj.SubState # "running" THEN TRUE
    ELSE IF si.SubState # "running" /\ sj.SubState = "running" THEN FALSE
    ELSE StrLess(si.SubState, sj.SubState)

ServiceLess(si, sj) ==
    IF si.SubState = "running" /\ sj.SubState # "running" THEN TRUE
    ELSE IF si.SubState # "running" /\ sj.SubState = "running" THEN FALSE
    ELSE IF si.SubState = sj.SubState THEN StrLess(si.Name, sj.Name)
    ELSE StrLess(si.SubState, sj.SubState)

Bijections(n) == {f \in [1..n -> 1..n] : \A i, j \in 1..n : f[i] = f[j] => i = j}

Perms(s) == {[i \in 1..Len(s) |-> s[f[i]]] : f \in Bijections(Len(s))}

\* sort.Slice: the slice is left in some order that less does not contradict
\* (the sort is not stable: elements less does not order may end in any order).
SortSlice(s) ==
    {r \in Perms(s) : \A i, j \in 1..Len(r) : i < j => ~ServiceLess(r[j], r[i])}

ServicesInit ==
    /\ svcOutput \in SeqsUpTo(SampleLines, MaxLines)
    /\ services = <<>>
    /\ svcPc = "call"

ServicesIdle ==
    /\ svcOutput = <<>>
    /\ services = <<>>
    /\ svcPc = "idle"

\* service.GetSystemdServices once the subprocess has printed svcOutput.
ListServices ==
    /\ svcPc = "call"
    /\ services' \in SortSlice(ParseUnits(svcOutput))
    /\ svcPc' = "done"
    /\ UNCHANGED <<svcOutput, gatewayVars, clientVars, relayVars, hostVars, mainVars, fetchVars, restVars>>

\* service.GetSystemdServices when the subprocess fails: (nil, err).
ListServicesFails ==
    /\ svcPc = "call"
    /\ services' = <<>>
    /\ svcPc' = "failed"
    /\ UNCHANGED <<svcOutput, gatewayVars, clientVars, relayVars, hostVars, mainVars, fetchVars, restVars>>

ServicesNext ==
    \/ ListServices
    \/ ListServicesFails

(***************************************************************************)
(* ----------------------- browser event dispatcher ---------------------- *)
(* class DockerManager of the bundled UI script.  Times are milliseconds.  *)
(***************************************************************************)
Tabs ==
    {"dashboard", "containers", "images", "networks", "volumes", "system",
     "services", "events"}

refreshCooldown == 5000

reconnectDelay == 5000

LogCap == 100

\* The step of the model's clock: a fifth of the cooldown.
TickMs == refreshCooldown \div 5

\* Date.now() when the page is loaded: any value past the first cooldown window.
Epoch == 2 * refreshCooldown

\* Type and Action of the daemon events of the model.
EventKinds ==
    { <<"container", "start">>, <<"container", "pause">>, <<"image", "delete">>,
      <<"image", "pull">>, <<"network", "create">>, <<"volume", "create">>,
      <<"daemon", "reload">> }

NoStep ==
    [created |-> 0, op |-> "none", sock |-> 0, type |-> "", action |-> "",
     gate |-> "none", fetches |-> {}, scheduled |-> 0, ran |-> FALSE, due |-> 0]

\* updateConnectionStatus(connected), with this.currentTab = tab.
ConnectionStatus(tab, connected) ==
    IF tab = "events"
    THEN IF connected THEN "Events Connected" ELSE "Events Disconnected"
    ELSE "API Ready"

\* The guard at the head of setupWebSocket: an existing socket makes it return.
AlreadyConnected(socks, w) == w # 0 /\ socks[w].rs = "OPEN"

\* setupWebSocket: the sockets and this.ws it leaves.
SetupWebSocket(socks, w) ==
    IF AlreadyConnected(socks, w)
    THEN [ws |-> w, sockets |-> socks, created |-> 0]
    ELSE [ws |-> Len(socks) + 1,
          sockets |-> Append(socks, [rs |-> "CONNECTING", attached |-> TRUE]),
          created |-> 1]

\* setupWebSocket can run within the model's bound on sockets.
CanSetup(socks, w) == AlreadyConnected(socks, w) \/ Len(socks) < MaxSockets

\* closeWebSocket, first half: onopen, onmessage, onerror, onclose set to null.
DetachHandlersMutant(sock) == sock

DetachHandlers(sock) == [sock EXCEPT !.attached = FALSE]

\* closeWebSocket: the sockets and this.ws it leaves (it creates no socket).
CloseWebSocket(socks, w) ==
    IF w = 0 THEN [ws |-> 0, sockets |-> socks, created |-> 0]
    ELSE LET d == DetachHandlers(socks[w])
         IN [ws |-> 0,
             sockets |-> [socks EXCEPT ![w] =
                            IF d.rs \in {"OPEN", "CONNECTING"}
                            THEN [d EXCEPT !.rs = "CLOSING"] ELSE d],
             created |-> 0]

\* The fetches loadTabData(tab) issues.
LoadTabData(tab) ==
    CASE tab = "dashboard"  -> {"/api/system/stats", "/api/info", "/api/system/host"}
      [] tab = "containers" -> {"/api/containers"}
      [] tab = "images"     -> {"/api/images"}
      [] tab = "networks"   -> {"/api/networks"}
      [] tab = "volumes"    -> {"/api/volumes"}
      [] tab = "system"     -> {"/api/info"}
      [] tab = "services"   -> {"/api/services"}
      [] OTHER              -> {}

\* loadEvents: a stream with at most one child is replaced by the placeholder.
LoadEvents(children) == IF Len(children) <= 1 THEN <<0>> ELSE children

\* refreshDashboardStats: fetches only while the dashboard is the current tab.
RefreshDashboardStatsMutant(tab) == {"/api/system/stats"}

RefreshDashboardStats(tab) ==
    IF tab = "dashboard" THEN {"/api/system/stats"} ELSE {}

\* handleContainerEvent
HandleContainerEvent(action, tab) ==
    IF action \in {"start", "stop", "die", "destroy", "create"}
    THEN (IF tab = "containers" THEN {"/api/containers"} ELSE {})
         \cup RefreshDashboardStats(tab)
    ELSE {}

\* The switch of smartRefresh: the fetches issued for an event past the cooldown.
SmartRefreshFetches(type, action, tab) ==
    CASE type = "container" -> HandleContainerEvent(action, tab)
      [] type = "image" ->
           (IF tab = "images" THEN {"/api/images"} ELSE {})
           \cup (IF action \in {"delete", "untag"} THEN RefreshDashboardStats(tab) ELSE {})
      [] type = "network" -> IF tab = "networks" THEN {"/api/networks"} ELSE {}
      [] type = "volume" -> IF tab = "volumes" THEN {"/api/volumes"} ELSE {}
      [] OTHER -> {}

\* The cooldown test of smartRefresh.
InCooldownMutant(t, last) == t - last < TickMs

InCooldown(t, last) == t - last < refreshCooldown

\* The eviction loop of addEventToStream.
RECURSIVE EvictOldestMutant(_)
EvictOldestMutant(children) ==
    IF Len(children) > LogCap THEN EvictOldestMutant(Tail(children)) ELSE children

RECURSIVE EvictOldest(_)
EvictOldest(children) ==
    IF Len(children) > LogCap
    THEN EvictOldest(SubSeq(children, 1, Len(children) - 1))
    ELSE children

\* addEventToStream: insert before the first child, then evict.
AddEventToStream(children, item) == EvictOldest(<<item>> \o children)

\* The handler of ws.onclose: whether it schedules a reconnect.
ReconnectOnCloseMutant(tab) == TRUE

ReconnectOnClose(tab) == tab = "events"

\* The state the constructor and init() leave: the dashboard is shown and
\* loadInitialData has issued the dashboard fetches.
ClientFresh ==
    /\ currentTab = "dashboard"
    /\ ws = 0
    /\ sockets = <<>>
    /\ timers = <<>>
    /\ now = Epoch
    /\ lastRefreshTime = 0
    /\ connStatus = ConnectionStatus("dashboard", FALSE)
    /\ gateLog = <<>>
    /\ detached = {}
    /\ step = [NoStep EXCEPT !.op = "init", !.fetches = LoadTabData("dashboard")]

ClientInit ==
    /\ ClientFresh
    /\ eventCount = 0
    /\ delivered = 0
    /\ stream = <<>>

\* The page after the events tab has shown LogCap - 2 events and the user has
\* returned to the dashboard: the stream holds them (numbered below zero,
\* oldest last) above the placeholder.
ClientInitFilled ==
    /\ ClientFresh
    /\ eventCount = LogCap - 2
    /\ delivered = 0
    /\ stream = [i \in 1..(LogCap - 1) |-> IF i = LogCap - 1 THEN 0 ELSE 0 - i]

ClientIdle ==
    /\ ClientFresh
    /\ eventCount = 0
    /\ delivered = 0
    /\ stream = <<>>

\* switchTab(tabName), a click on a navigation item (the current one included).
SwitchTab(tab) ==
    /\ tab = "events" => CanSetup(sockets, ws)
    /\ LET r == IF tab = "events"
                THEN SetupWebSocket(sockets, ws)
                ELSE CloseWebSocket(sockets, ws)
       IN /\ currentTab' = tab
          /\ sockets' = r.sockets
          /\ ws' = r.ws
          /\ connStatus' =
                ConnectionStatus(tab, r.ws # 0 /\ r.sockets[r.ws].rs = "OPEN")
          /\ stream' = IF tab = "events" THEN LoadEvents(stream) ELSE stream
          /\ detached' = IF tab # "events" /\ ws # 0 THEN detached \cup {ws} ELSE detached
          /\ step' = [NoStep EXCEPT !.op = "switchTab", !.sock = ws,
                                    !.fetches = LoadTabData(tab),
                                    !.created = r.created]
    /\ UNCHANGED <<timers, now, lastRefreshTime, eventCount, delivered, gateLog>>
    /\ UNCHANGED <<gatewayVars, servicesVars, relayVars, hostVars, mainVars, fetchVars, restVars>>

\* The handshake of socket s succeeds: readyState OPEN, then ws.onopen.
SocketOpen(s) ==
    /\ sockets[s].rs = "CONNECTING"
    /\ sockets' = [sockets EXCEPT ![s].rs = "OPEN"]
    /\ connStatus' = IF sockets[s].attached
                     THEN ConnectionStatus(currentTab, TRUE) ELSE connStatus
    /\ step' = [NoStep EXCEPT !.op = "open", !.sock = s, !.ran = sockets[s].attached]
    /\ UNCHANGED <<currentTab, ws, timers, now, lastRefreshTime, eventCount, stream,
                   delivered, gateLog, detached>>
    /\ UNCHANGED <<gatewayVars, servicesVars, relayVars, hostVars, mainVars, fetchVars, restVars>>

\* Socket s reaches CLOSED and its close event fires (after an error event when
\* the connection failed): ws.onerror and ws.onclose run if still attached.
CloseEvent(s, op) ==
    /\ sockets[s].rs # "CLOSED"
    /\ sockets' = [sockets EXCEPT ![s].rs = "CLOSED"]
    /\ LET ran == sockets[s].attached
           again == ran /\ ReconnectOnClose(currentTab)
       IN /\ connStatus' = IF ran THEN ConnectionStatus(currentTab, FALSE) ELSE connStatus
          /\ timers' = IF again THEN Append(timers, now + reconnectDelay) ELSE timers
          /\ step' = [NoStep EXCEPT !.op = op, !.sock = s, !.ran = ran,
                                    !.scheduled = IF again THEN 1 ELSE 0,
                                    !.due = IF again THEN now + reconnectDelay ELSE 0]
    /\ UNCHANGED <<currentTab, ws, now, lastRefreshTime, eventCount, stream,
                   delivered, gateLog, detached>>
    /\ UNCHANGED <<gatewayVars, servicesVars, relayVars, hostVars, mainVars, fetchVars, restVars>>

\* The server or the network ends the connection, or a close() completes.
SocketClose(s) == CloseEvent(s, "close")

\* The connection fails: the error event, then the close event.
SocketError(s) ==
    /\ sockets[s].rs \in {"CONNECTING", "OPEN"}
    /\ CloseEvent(s, "error")

\* A reconnect timer fires: setupWebSocket().
ReconnectTimer ==
    /\ timers # <<>>
    /\ now >= Head(timers)
    /\ CanSetup(sockets, ws)
    /\ LET r == SetupWebSocket(sockets, ws)
       IN /\ sockets' = r.sockets
          /\ ws' = r.ws
          /\ step' = [NoStep EXCEPT !.op = "timer", !.due = Head(timers),
                                    !.created = r.created, !.ran = TRUE]
    /\ timers' = Tail(timers)
    /\ UNCHANGED <<currentTab, now, lastRefreshTime, eventCount, stream, connStatus,
                   delivered, gateLog, detached>>
    /\ UNCHANGED <<gatewayVars, servicesVars, relayVars, hostVars, mainVars, fetchVars, restVars>>

\* ws.onmessage of socket s: handleDockerEvent(eventData), smartRefresh included.
SocketMessage(s, kind) ==
    /\ sockets[s].rs = "OPEN"
    /\ sockets[s].attached
    /\ delivered < MaxEvents
    /\ delivered' = delivered + 1
    /\ eventCount' = eventCount + 1
    /\ stream' = IF currentTab = "events"
                 THEN AddEventToStream(stream, delivered + 1) ELSE stream
    /\ LET type == kind[1]
           action == kind[2]
           smart == currentTab # "events"
                    /\ type \in {"container", "image", "network", "volume"}
           skip == InCooldown(now, lastRefreshTime)
       IN /\ lastRefreshTime' = IF smart /\ ~skip THEN now ELSE lastRefreshTime
          /\ gateLog' = IF smart
                        THEN Append(gateLog, [at |-> now, passed |-> ~skip])
                        ELSE gateLog
          /\ step' = [NoStep EXCEPT
                        !.op = "event", !.sock = s, !.type = type,
                        !.action = action, !.ran = TRUE,
                        !.gate = IF ~smart THEN "none"
                                 ELSE IF skip THEN "skipped" ELSE "passed",
                        !.fetches = IF smart /\ ~skip
                                    THEN SmartRefreshFetches(type, action, currentTab)
                                    ELSE {}]
    /\ UNCHANGED <<currentTab, ws, sockets, timers, now, connStatus, detached>>
    /\ UNCHANGED <<gatewayVars, servicesVars, relayVars, hostVars, mainVars, fetchVars, restVars>>

\* clearEvents, the button of the events tab.
ClearEvents ==
    /\ currentTab = "events"
    /\ stream' = <<0>>
    /\ eventCount' = 0
    /\ step' = [NoStep EXCEPT !.op = "clear"]
    /\ UNCHANGED <<currentTab, ws, sockets, timers, now, lastRefreshTime, connStatus,
                   delivered, gateLog, detached>>
    /\ UNCHANGED <<gatewayVars, servicesVars, relayVars, hostVars, mainVars, fetchVars, restVars>>

\* Time passes.
Tick ==
    /\ now < Epoch + MaxTicks * TickMs
    /\ now' = now + TickMs
    /\ step' = [NoStep EXCEPT !.op = "tick"]
    /\ UNCHANGED <<currentTab, ws, sockets, timers, lastRefreshTime, eventCount, stream,
                   connStatus, delivered, gateLog, detached>>
    /\ UNCHANGED <<gatewayVars, servicesVars, relayVars, hostVars, mainVars, fetchVars, restVars>>

\* The client while the daemon emits no event.
SocketsNext ==
    \/ \E tab \in Tabs : SwitchTab(tab)
    \/ \E s \in DOMAIN sockets : SocketOpen(s)
    \/ \E s \in DOMAIN sockets : SocketClose(s)
    \/ \E s \in DOMAIN sockets : SocketError(s)
    \/ ReconnectTimer
    \/ Tick

\* The client handling the events of one instant (no time passes).
EventsNext ==
    \/ \E tab \in Tabs : SwitchTab(tab)
    \/ \E s \in DOMAIN sockets : SocketOpen(s)
    \/ \E s \in DOMAIN sockets : SocketClose(s)
    \/ \E s \in DOMAIN sockets : SocketError(s)
    \/ \E s \in DOMAIN sockets, kind \in EventKinds : SocketMessage(s, kind)
    \/ ClearEvents

\* The client handling events over time, on connections that stay up.
CooldownNext ==
    \/ \E tab \in {"dashboard", "containers", "events"} : SwitchTab(tab)
    \/ \E s \in DOMAIN sockets : SocketOpen(s)
    \/ \E s \in DOMAIN sockets, kind \in EventKinds : SocketMessage(s, kind)
    \/ Tick

(***************************************************************************)
(* --------------------------- event relay loops ------------------------- *)
(* GetSystemEvents (chunked HTTP, service.StreamSystemEvents) and          *)
(* HandleWebSocket, each with the daemon subscription it opened.  The      *)
(* subscription delivers events one at a time and, when it fails, one      *)
(* error after which it delivers nothing more.                             *)
(***************************************************************************)
Relays == {"http", "ws"}

RelayIdleState ==
    [pc |-> "idle", sub |-> "none", err |-> Nil, offered |-> 0, sent |-> <<>>,
     clientUp |-> TRUE, conn |-> "none", reported |-> Nil]

RelayInit == relay = [r \in Relays |-> RelayIdleState]

RelayIdle == relay = [r \in Relays |-> RelayIdleState]

\* The request arrives; the handler subscribes (DockerClient.Events) and
\* enters its loop.  For the WebSocket the upgrade has succeeded.
RelayStart(r) ==
    /\ relay[r].pc = "idle"
    /\ relay' = [relay EXCEPT ![r] = [@ EXCEPT !.pc = "loop", !.sub = "live",
                                               !.conn = "open"]]
    /\ UNCHANGED <<gatewayVars, servicesVars, clientVars, hostVars, mainVars, fetchVars, restVars>>

\* HandleWebSocket: Upgrader.Upgrade fails; the handler logs and returns.
UpgradeFails ==
    /\ relay["ws"].pc = "idle"
    /\ relay' = [relay EXCEPT !["ws"] = [@ EXCEPT !.pc = "done", !.conn = "closed"]]
    /\ UNCHANGED <<gatewayVars, servicesVars, clientVars, hostVars, mainVars, fetchVars, restVars>>

\* What the loop does after writing an event: the HTTP loop ignores the
\* result of encoder.Encode, the WebSocket loop returns when WriteJSON failed.
ReturnsOnWriteError(r) == r = "ws"

\* A sink that puts the newest event first.
WriteEventMutant(sent, e, wrote) == IF wrote THEN <<e>> \o sent ELSE sent

\* encoder.Encode(event) with Flush, or conn.WriteJSON(event): the event is
\* one more object on the sink, unless the write fails.
WriteEvent(sent, e, wrote) == IF wrote THEN Append(sent, e) ELSE sent

\* case event := <-events: the daemon delivers its next event and the handler
\* writes it to the sink.
RelayEvent(r) ==
    /\ relay[r].pc = "loop"
    /\ relay[r].sub = "live"
    /\ relay[r].offered < MaxRelayEvents
    /\ LET e == relay[r].offered + 1
           wrote == relay[r].clientUp
           returns == ~wrote /\ ReturnsOnWriteError(r)
       IN relay' = [relay EXCEPT ![r] =
                      [@ EXCEPT !.offered = e,
                                !.sent = WriteEvent(@, e, wrote),
                                !.pc = IF returns THEN "done" ELSE "loop",
                                !.conn = IF returns THEN "closed" ELSE "open",
                                !.reported = IF returns THEN "write error" ELSE @]]
    /\ UNCHANGED <<gatewayVars, servicesVars, clientVars, hostVars, mainVars, fetchVars, restVars>>

\* The subscription fails: the daemon's goroutine sends err on the error
\* channel and ends.
DaemonError(r, e) ==
    /\ relay[r].sub = "live"
    /\ relay' = [relay EXCEPT ![r] = [@ EXCEPT !.sub = "errored", !.err = e]]
    /\ UNCHANGED <<gatewayVars, servicesVars, clientVars, hostVars, mainVars, fetchVars, restVars>>

\* Whether the loop returns on the value received from the error channel:
\* StreamSystemEvents returns whatever it received, HandleWebSocket returns
\* when it is not nil.
ReturnsOnErrorMutant(r, e) == FALSE

ReturnsOnError(r, e) == IF r = "http" THEN TRUE ELSE e # Nil

\* case err := <-errs
RelayError(r) ==
    /\ relay[r].pc = "loop"
    /\ relay[r].sub = "errored"
    /\ LET returns == ReturnsOnError(r, relay[r].err)
       IN relay' = [relay EXCEPT ![r] =
                      [@ EXCEPT !.sub = "ended",
                                !.pc = IF returns THEN "done" ELSE "loop",
                                !.conn = IF returns THEN "closed" ELSE "open",
                                !.reported = IF returns THEN relay[r].err ELSE @]]
    /\ UNCHANGED <<gatewayVars, servicesVars, clientVars, hostVars, mainVars, fetchVars, restVars>>

\* The client goes away: later writes to the sink fail.  Both handlers wait
\* on context.Background(), which the request's end does not cancel.
ClientGone(r) ==
    /\ relay[r].pc = "loop"
    /\ relay[r].clientUp
    /\ relay' = [relay EXCEPT ![r] = [@ EXCEPT !.clientUp = FALSE]]
    /\ UNCHANGED <<gatewayVars, servicesVars, clientVars, hostVars, mainVars, fetchVars, restVars>>

RelayNext ==
    \/ \E r \in Relays : RelayStart(r)
    \/ UpgradeFails
    \/ \E r \in Relays : RelayEvent(r)
    \/ \E r \in Relays, e \in ErrTexts : DaemonError(r, e)
    \/ \E r \in Relays : RelayError(r)
    \/ \E r \in Relays : ClientGone(r)

(***************************************************************************)
(* ------------------------------ host snapshot -------------------------- *)
(* service.GetHostSystemInfo reads four /proc files.  A text is a sequence  *)
(* of pieces: words, runs of white space (" " is one space, "  " two) and   *)
(* "\n".  A float64 is held as its value in hundredths, the percentage as   *)
(* the fraction <<numerator, denominator>>.                                 *)
(***************************************************************************)
ProcFiles == {"/proc/uptime", "/proc/loadavg", "/proc/meminfo", "/proc/net/tcp"}

\* strconv.ParseFloat(word, 64) on the words of the model: the value in
\* hundredths, or no value when the word is not a number.
ParseFloat(word) ==
    CASE word = <<"0.50">>     -> <<50>>
      [] word = <<"1.00">>     -> <<100>>
      [] word = <<"1.50">>     -> <<150>>
      [] word = <<"59.99">>    -> <<5999>>
      [] word = <<"3600.50">>  -> <<360050>>
      [] word = <<"90061.20">> -> <<9006120>>
      [] OTHER                 -> <<>>

\* strconv.ParseInt(word, 10, 64) on the words of the model.
ParseInt(word) ==
    CASE word = "0"    -> <<0>>
      [] word = "400"  -> <<400>>
      [] word = "1000" -> <<1000>>
      [] word = "2048" -> <<2048>>
      [] OTHER         -> <<>>

\* strings.Split(text, " "): the parts between single spaces; a part is the
\* sequence of the pieces it is made of (empty between two adjacent spaces).
RECURSIVE SplitSpace(_, _)
SplitSpace(text, part) ==
    IF text = <<>> THEN <<part>>
    ELSE IF Head(text) = " " THEN <<part>> \o SplitSpace(Tail(text), <<>>)
    ELSE IF Head(text) = "  " THEN <<part, <<>>>> \o SplitSpace(Tail(text), <<>>)
    ELSE SplitSpace(Tail(text), Append(part, Head(text)))

\* strings.Split(text, "\n"): the segments between newlines.
RECURSIVE SplitLines(_, _)
SplitLines(text, segment) ==
    IF text = <<>> THEN <<segment>>
    ELSE IF Head(text) = "\n" THEN <<segment>> \o SplitLines(Tail(text), <<>>)
    ELSE SplitLines(Tail(text), Append(segment, Head(text)))

\* int64(f) of a float64 held in hundredths (not negative in the model).
TruncToInt(hundredths) == hundredths \div 100

\* formatUptime
FormatUptime(seconds) ==
    LET days == seconds \div 86400
        hours == (seconds % 86400) \div 3600
        minutes == (seconds % 3600) \div 60
    IN IF days > 0 THEN <<days, "d ", hours, "h ", minutes, "m">>
       ELSE IF hours > 0 THEN <<hours, "h ", minutes, "m">>
       ELSE <<minutes, "m">>

\* models.HostSystemInfo zero value.
ZeroHostInfo ==
    [Uptime |-> <<>>, UptimeSeconds |-> 0,
     LoadAverage1 |-> 0, LoadAverage5 |-> 0, LoadAverage15 |-> 0,
     MemoryTotal |-> 0, MemoryUsed |-> 0, MemoryAvailable |-> 0,
     MemoryUsedPct |-> <<0, 1>>, NetworkConnections |-> 0, CPUCores |-> 0]

\* The uptime block.
ReadUptime(info, readable, text) ==
    IF ~readable THEN info
    ELSE LET uptimeParts == SplitSpace(TrimSpace(text), <<>>)
             uptimeSeconds == ParseFloat(uptimeParts[1])
         IN IF uptimeSeconds = <<>> THEN info
            ELSE [info EXCEPT !.UptimeSeconds = TruncToInt(uptimeSeconds[1]),
                              !.Uptime = FormatUptime(TruncToInt(uptimeSeconds[1]))]

\* The load average block.
ReadLoadavg(info, readable, text) ==
    IF ~readable THEN info
    ELSE LET loadParts == SplitSpace(TrimSpace(text), <<>>)
             Load(k, old) == IF ParseFloat(loadParts[k]) = <<>> THEN old
                             ELSE ParseFloat(loadParts[k])[1]
         IN IF Len(loadParts) >= 3
            THEN [info EXCEPT !.LoadAverage1 = Load(1, @),
                              !.LoadAverage5 = Load(2, @),
                              !.LoadAverage15 = Load(3, @)]
            ELSE info

\* MemValue without the conversion from kB to bytes.
MemValueMutant(line, old) ==
    LET parts == Fields(line)
    IN IF Len(parts) >= 2 /\ ParseInt(parts[2]) # <<>> THEN ParseInt(parts[2])[1]
       ELSE old

\* The value of a "Key:   value kB" line: strings.Fields, then ParseInt of the
\* second field.
MemValue(line, old) ==
    LET parts == Fields(line)
    IN IF Len(parts) >= 2 /\ ParseInt(parts[2]) # <<>> THEN ParseInt(parts[2])[1] * 1024
       ELSE old

\* strings.HasPrefix(line, key) for a key that is a whole word of the model.
HasPrefix(line, key) == line # <<>> /\ Head(line) = key

\* The scanner loop over /proc/meminfo.
RECURSIVE ScanMeminfo(_, _)
ScanMeminfo(info, lines) ==
    IF lines = <<>> THEN info
    ELSE LET line == Head(lines)
         IN ScanMeminfo(
                IF HasPrefix(line, "MemTotal:")
                THEN [info EXCEPT !.MemoryTotal = MemValue(line, @)]
                ELSE IF HasPrefix(line, "MemAvailable:")
                     THEN [info EXCEPT !.MemoryAvailable = MemValue(line, @)]
                     ELSE info,
                Tail(lines))

\* The memory block.
ReadMeminfo(info, readable, lines) ==
    IF ~readable THEN info
    ELSE LET scanned == ScanMeminfo(info, lines)
             used == scanned.MemoryTotal - scanned.MemoryAvailable
         IN [scanned EXCEPT !.MemoryUsed = used,
                            !.MemoryUsedPct = IF scanned.MemoryTotal > 0
                                              THEN <<used * 100, scanned.MemoryTotal>>
                                              ELSE @]

\* The network connections block without its floor at zero.
ReadNetTcpMutant(info, readable, text) ==
    IF ~readable THEN info
    ELSE [info EXCEPT !.NetworkConnections = Len(SplitLines(text, <<>>)) - 2]

\* The network connections block.
ReadNetTcp(info, readable, text) ==
    IF ~readable THEN info
    ELSE LET lines == SplitLines(text, <<>>)
         IN [info EXCEPT !.NetworkConnections =
                             IF Len(lines) - 2 < 0 THEN 0 ELSE Len(lines) - 2]

\* GetHostSystemInfo giving up at the first file it cannot read.
ServiceGetHostSystemInfoMutant(unreadable, uptime, loadavg, meminfo, nettcp, cores) ==
    LET i1 == ReadUptime(ZeroHostInfo, "/proc/uptime" \notin unreadable, uptime)
        i2 == ReadLoadavg(i1, "/proc/loadavg" \notin unreadable, loadavg)
        i3 == ReadMeminfo(i2, "/proc/meminfo" \notin unreadable, meminfo)
        i4 == [i3 EXCEPT !.CPUCores = cores]
    IN IF "/proc/uptime" \in unreadable THEN ZeroHostInfo
       ELSE IF "/proc/loadavg" \in unreadable THEN i1
       ELSE IF "/proc/meminfo" \in unreadable THEN i2
       ELSE ReadNetTcp(i4, "/proc/net/tcp" \notin unreadable, nettcp)

\* service.GetHostSystemInfo: the snapshot it returns (its error is always nil).
ServiceGetHostSystemInfo(unreadable, uptime, loadavg, meminfo, nettcp, cores) ==
    LET i1 == ReadUptime(ZeroHostInfo, "/proc/uptime" \notin unreadable, uptime)
        i2 == ReadLoadavg(i1, "/proc/loadavg" \notin unreadable, loadavg)
        i3 == ReadMeminfo(i2, "/proc/meminfo" \notin unreadable, meminfo)
        i4 == [i3 EXCEPT !.CPUCores = cores]
    IN ReadNetTcp(i4, "/proc/net/tcp" \notin unreadable, nettcp)

\* Texts of /proc/uptime.
UptimeTexts ==
    { <<"90061.20", " ", "3600.50", "\n">>,
      <<"59.99", " ", "1.00", "\n">>,
      <<"up", " ", "3600.50", "\n">> }

\* Texts of /proc/loadavg.
LoadavgTexts ==
    { <<"0.50", " ", "1.00", " ", "1.50", " ", "1/100", " ", "4242", "\n">>,
      <<"0.50", " ", "1.00", "\n">>,
      <<"0.50", " ", "n/a", " ", "1.50", "\n">> }

\* Contents of /proc/meminfo.
MeminfoFiles ==
    { << <<"MemTotal:", "  ", "1000", " ", "kB">>,
         <<"MemFree:", "  ", "2048", " ", "kB">>,
         <<"MemAvailable:", "  ", "400", " ", "kB">> >>,
      << <<"MemTotal:", "\t", "2048", " ", "kB">> >>,
      << <<"MemAvailable:", " ", "400", " ", "kB">> >>,
      << <<"MemTotal:", " ", "kB">>, <<"MemAvailable:", " ", "400", " ", "kB">> >>,
      << <<"MemTotal:", " ", "1000", " ", "kB">>,
         <<"MemAvailable:", " ", "1000", " ", "kB">> >>,
      << <<"MemTotal:", " ", "400", " ", "kB">>,
         <<"MemAvailable:", " ", "1000", " ", "kB">> >>,
      << >> }

\* Texts of /proc/net/tcp: every text of up to MaxTcpPieces lines and newlines.
NetTcpTexts == SeqsUpTo({"row", "\n"}, MaxTcpPieces)

HostInit ==
    /\ procUnreadable \in SUBSET ProcFiles
    /\ procUptime \in UptimeTexts
    /\ procLoadavg \in LoadavgTexts
    /\ procMeminfo \in MeminfoFiles
    /\ procNetTcp \in NetTcpTexts
    /\ hostInfo = <<>>
    /\ hostStatus = 0

HostIdle ==
    /\ procUnreadable = {}
    /\ procUptime = <<>>
    /\ procLoadavg = <<>>
    /\ procMeminfo = <<>>
    /\ procNetTcp = <<>>
    /\ hostInfo = <<>>
    /\ hostStatus = 0

\* The handler GetHostSystemInfo: the service never fails, the snapshot is
\* encoded with status 200.
GetHostSystemInfo ==
    /\ hostStatus = 0
    /\ \E cores \in {1, 4} :
          hostInfo' = << ServiceGetHostSystemInfo(procUnreadable, procUptime, procLoadavg,
                                                   procMeminfo, procNetTcp, cores) >>
    /\ hostStatus' = 200
    /\ UNCHANGED <<procUnreadable, procUptime, procLoadavg, procMeminfo, procNetTcp>>
    /\ UNCHANGED <<gatewayVars, servicesVars, clientVars, relayVars, mainVars, fetchVars, restVars>>

HostNext == GetHostSystemInfo

(***************************************************************************)
(* ------------------------------ process start -------------------------- *)
(* cmd/server main: InitDockerClient, getPort, NewRouter, ListenAndServe.   *)
(* A listen address is the pair of ":" and the port text.                   *)
(***************************************************************************)
\* Values of the -port flag and of DOCKER_MANAGER_PORT ("" is unset or empty).
PortTexts == {"", "3000", "8080", "9090"}

\* getPort with the env-before-flag precedence it does not have.
getPortMutant(flagValue, envValue) ==
    IF envValue # "" THEN <<":", envValue>>
    ELSE IF flagValue # "" THEN <<":", flagValue>>
    ELSE <<":", "8080">>

\* getPort
getPort(flagValue, envValue) ==
    IF flagValue # "" THEN <<":", flagValue>>
    ELSE IF envValue # "" THEN <<":", envValue>>
    ELSE <<":", "8080">>

\* InitDockerClient's check with the error only logged.
FatalOnErrorMutant(err, nextPc) == nextPc

\* `if err != nil { log.Fatal(...) }`: the process exits, or goes on.
FatalOnError(err, nextPc) == IF err THEN "exited" ELSE nextPc

MainInit ==
    /\ flagPort \in PortTexts
    /\ envPort \in PortTexts
    /\ newClientErr \in BOOLEAN
    /\ dockerClient = "nil"
    /\ mainPc = "start"
    /\ listenAddr = <<>>
    /\ handledBy = <<>>

MainIdle ==
    /\ flagPort = ""
    /\ envPort = ""
    /\ newClientErr = FALSE
    /\ dockerClient = "nil"
    /\ mainPc = "idle"
    /\ listenAddr = <<>>
    /\ handledBy = <<>>

\* service.InitDockerClient: DockerClient is assigned whatever
\* NewClientWithOpts returned; an error is fatal.
InitDockerClient ==
    /\ mainPc = "start"
    /\ dockerClient' = IF newClientErr THEN "nil" ELSE "client"
    /\ mainPc' = FatalOnError(newClientErr, "initialized")
    /\ UNCHANGED <<flagPort, envPort, newClientErr, listenAddr, handledBy>>
    /\ UNCHANGED <<gatewayVars, servicesVars, clientVars, relayVars, hostVars, fetchVars, restVars>>

\* port := getPort(); r := api.NewRouter()
GetPort ==
    /\ mainPc = "initialized"
    /\ listenAddr' = getPort(flagPort, envPort)
    /\ mainPc' = "routed"
    /\ UNCHANGED <<flagPort, envPort, newClientErr, dockerClient, handledBy>>
    /\ UNCHANGED <<gatewayVars, servicesVars, clientVars, relayVars, hostVars, fetchVars, restVars>>

\* http.ListenAndServe(port, r): the listener is bound, or the call returns
\* an error and log.Fatal ends the process.
ListenAndServe ==
    /\ mainPc = "routed"
    /\ \E bindErr \in BOOLEAN : mainPc' = FatalOnError(bindErr, "listening")
    /\ UNCHANGED <<flagPort, envPort, newClientErr, dockerClient, listenAddr, handledBy>>
    /\ UNCHANGED <<gatewayVars, servicesVars, clientVars, relayVars, hostVars, fetchVars, restVars>>

\* A request served by a handler, which calls service.DockerClient as it is.
ServeRequest ==
    /\ mainPc = "listening"
    /\ Len(handledBy) < MaxRequests
    /\ handledBy' = Append(handledBy, dockerClient)
    /\ UNCHANGED <<flagPort, envPort, newClientErr, dockerClient, mainPc, listenAddr>>
    /\ UNCHANGED <<gatewayVars, servicesVars, clientVars, relayVars, hostVars, fetchVars, restVars>>

MainNext == InitDockerClient \/ GetPort \/ ListenAndServe \/ ServeRequest

(***************************************************************************)
(* ----------------------------- client fetches -------------------------- *)
(* The functions of DockerManager that call fetch.  A call is one step: the *)
(* requests it issues, what its catch block does, what it shows.            *)
(***************************************************************************)
\* A fetch resolves with a 2xx response, resolves with the gateway's plain
\* text 500 response, or rejects.
Outcomes == {"ok", "http500", "network"}

\* Functions whose catch block only calls console.error.
Loaders ==
    {"refreshDashboardStats", "loadDashboardData", "loadHostSystemInfo", "loadContainers",
     "loadImages", "loadNetworks", "loadVolumes", "loadSystemInfo"}

\* Container actions: response.ok or throw, catch shows a notification.
ContainerActions == {"startContainer", "stopContainer", "restartContainer"}

\* Service actions: response.ok, or the response text in a notification.
ServiceActions ==
    {"startService", "stopService", "restartService", "enableService", "disableService"}

\* Functions that parse the body as JSON and whose catch block shows a
\* notification.
NotifyingLoaders == {"showContainerDetail", "loadServices", "showServiceDetail"}

FetchOps ==
    Loaders \cup ContainerActions \cup ServiceActions \cup NotifyingLoaders
        \cup {"loadContainerLogs"}

\* The requests of the function's own fetch calls.
Requests(op) ==
    CASE op = "loadDashboardData" -> <<"/api/system/stats", "/api/info", "/api/system/host">>
      [] op = "refreshDashboardStats" -> <<"/api/system/stats">>
      [] op = "loadHostSystemInfo" -> <<"/api/system/host">>
      [] op = "loadContainers" -> <<"/api/containers">>
      [] op = "loadImages" -> <<"/api/images">>
      [] op = "loadNetworks" -> <<"/api/networks">>
      [] op = "loadVolumes" -> <<"/api/volumes">>
      [] op = "loadSystemInfo" -> <<"/api/info">>
      [] op = "loadServices" -> <<"/api/services">>
      [] op = "showContainerDetail" -> <<"/api/containers/{id}">>
      [] op = "loadContainerLogs" -> <<"/api/containers/{id}/logs">>
      [] op = "showServiceDetail" -> <<"/api/services/{name}">>
      [] op \in ContainerActions -> <<"/api/containers/{id}/{action}">>
      [] op \in ServiceActions -> <<"/api/services/{name}/{action}">>

\* The refresh a successful action starts: loadContainers() or loadServices().
FollowUp(op, outcome) ==
    IF outcome # "ok" THEN <<>>
    ELSE IF op \in ContainerActions THEN Requests("loadContainers")
    ELSE IF op \in ServiceActions THEN Requests("loadServices")
    ELSE <<>>

\* The calls of showNotification made by the function.
Notifications(op, outcome) ==
    IF op \in ContainerActions \cup ServiceActions
    THEN IF outcome = "ok" THEN <<"success">> ELSE <<"error">>
    ELSE IF op \in NotifyingLoaders /\ outcome # "ok" THEN <<"error">>
    ELSE <<>>

\* Whether the catch block ran: fetch rejected, response.json() threw on the
\* plain text of a 500, or the function threw for a response that is not ok.
\* loadContainerLogs reads the text and the service actions read response.ok,
\* so a 500 does not throw there.
Caught(op, outcome) ==
    \/ outcome = "network"
    \/ outcome = "http500" /\ op \notin ServiceActions \cup {"loadContainerLogs"}

\* What the call leaves behind.
FetchResult(op, outcome) ==
    [op |-> op, outcome |-> outcome,
     issued |-> Requests(op) \o FollowUp(op, outcome),
     notifications |-> Notifications(op, outcome),
     caught |-> Caught(op, outcome),
     uncaught |-> FALSE]

NoFetch ==
    [op |-> "none", outcome |-> "ok", issued |-> <<>>, notifications |-> <<>>,
     caught |-> FALSE, uncaught |-> FALSE]

FetchInit ==
    /\ fetchStep = NoFetch
    /\ fetchCount = 0

FetchIdle == FetchInit

\* One call of a fetching function, with the outcome of its fetch.
CallFetch ==
    /\ fetchCount < MaxCalls
    /\ \E op \in FetchOps, outcome \in Outcomes : fetchStep' = FetchResult(op, outcome)
    /\ fetchCount' = fetchCount + 1
    /\ UNCHANGED <<gatewayVars, servicesVars, clientVars, relayVars, hostVars, mainVars, restVars>>

FetchNext == CallFetch

(***************************************************************************)
(* ----------------------------- interval timers ------------------------- *)
(* startPeriodicRefresh and startHostInfoRefresh, both called once by       *)
(* init(); no code calls clearInterval.  A callback runs when it is due.    *)
(***************************************************************************)
forceRefreshInterval == 120000

hostInfoInterval == 30000

\* The test in the callback of startPeriodicRefresh, without its exception.
ForceRefreshRunsMutant(tab) == TRUE

\* The test in the callback of startPeriodicRefresh.
ForceRefreshRuns(tab) == tab # "events"

\* The callback of startHostInfoRefresh.
HostInfoFetches(tab) == IF tab = "dashboard" THEN {"/api/system/host"} ELSE {}

Min(a, b) == IF a <= b THEN a ELSE b

PeriodicInit ==
    /\ refreshDue = Epoch + forceRefreshInterval
    /\ hostInfoDue = Epoch + hostInfoInterval

PeriodicIdle ==
    /\ refreshDue = 0
    /\ hostInfoDue = 0

\* Nothing happens until the next interval callback is due.
WaitForTimer ==
    /\ now < Min(refreshDue, hostInfoDue)
    /\ Min(refreshDue, hostInfoDue) <= Epoch + MaxPeriods * hostInfoInterval
    /\ now' = Min(refreshDue, hostInfoDue)
    /\ step' = [NoStep EXCEPT !.op = "wait"]
    /\ UNCHANGED <<currentTab, ws, sockets, timers, lastRefreshTime, eventCount, stream,
                   connStatus, delivered, gateLog, detached, periodicVars>>
    /\ UNCHANGED <<gatewayVars, servicesVars, relayVars, hostVars, mainVars, fetchVars,
                   snapshotVars, overlapVars,
                   containerLogsVars, serviceLogsVars, detailVars>>

\* The callback of startPeriodicRefresh: refreshCurrentTabData() unless the
\* events tab is current.
ForceRefresh ==
    /\ now >= refreshDue
    /\ refreshDue' = refreshDue + forceRefreshInterval
    /\ step' = [NoStep EXCEPT !.op = "forceRefresh", !.due = refreshDue,
                              !.ran = ForceRefreshRuns(currentTab),
                              !.fetches = IF ForceRefreshRuns(currentTab)
                                          THEN LoadTabData(currentTab) ELSE {}]
    /\ UNCHANGED <<currentTab, ws, sockets, timers, now, lastRefreshTime, eventCount,
                   stream, connStatus, delivered, gateLog, detached, hostInfoDue>>
    /\ UNCHANGED <<gatewayVars, servicesVars, relayVars, hostVars, mainVars, fetchVars,
                   snapshotVars, overlapVars,
                   containerLogsVars, serviceLogsVars, detailVars>>

\* The callback of startHostInfoRefresh: loadHostSystemInfo() on the dashboard.
HostInfoRefresh ==
    /\ now >= hostInfoDue
    /\ hostInfoDue' = hostInfoDue + hostInfoInterval
    /\ step' = [NoStep EXCEPT !.op = "hostInfo", !.due = hostInfoDue,
                              !.ran = (currentTab = "dashboard"),
                              !.fetches = HostInfoFetches(currentTab)]
    /\ UNCHANGED <<currentTab, ws, sockets, timers, now, lastRefreshTime, eventCount,
                   stream, connStatus, delivered, gateLog, detached, refreshDue>>
    /\ UNCHANGED <<gatewayVars, servicesVars, relayVars, hostVars, mainVars, fetchVars,
                   snapshotVars, overlapVars,
                   containerLogsVars, serviceLogsVars, detailVars>>

\* The page over several minutes: tabs, sockets that stay up, container
\* events, and the two interval timers.
PeriodicNext ==
    \/ \E tab \in {"dashboard", "containers", "events"} : SwitchTab(tab)
    \/ \E s \in DOMAIN sockets : SocketOpen(s)
    \/ \E s \in DOMAIN sockets : SocketMessage(s, <<"container", "start">>)
    \/ WaitForTimer
    \/ ForceRefresh
    \/ HostInfoRefresh

(***************************************************************************)
(* -------------------- GetSystemStats, one call at a time --------------- *)
(* The four list calls of service.GetSystemStats are four round trips to    *)
(* the daemon; containers, images, networks and volumes come and go in      *)
(* between.                                                                 *)
(***************************************************************************)
\* The daemon's four lists now.
Instant == <<dContainers, dImages, dNetworks, dVolumes>>

\* The totals of four lists.
Totals(lists) == <<Len(lists[1]), Len(lists[2]), lists[3], lists[4]>>

\* What the k-th call would return if all four were answered from the
\* daemon's state at the first call.
ListResultMutant(k, current, first) == first[k]

\* What the k-th call returns: ContainerList, ImageList, NetworkList,
\* VolumeList, each answered from the daemon's state when it is made.
ListResult(k, current, first) == current[k]

SnapshotInit ==
    /\ statsStep = 1
    /\ listed = <<>>
    /\ atCall = <<>>
    /\ instants = <<Instant>>

SnapshotIdle ==
    /\ statsStep = 0
    /\ listed = <<>>
    /\ atCall = <<>>
    /\ instants = <<>>

\* Something is created or removed on the daemon while the request runs.
DaemonChange ==
    /\ statsStep \in 1..4
    /\ Len(instants) <= MaxChanges
    /\ \/ /\ Len(dContainers) < MaxContainers
          /\ dContainers' = Append(dContainers, "running")
          /\ UNCHANGED <<dImages, dNetworks, dVolumes>>
       \/ /\ dContainers # <<>>
          /\ dContainers' = Tail(dContainers)
          /\ UNCHANGED <<dImages, dNetworks, dVolumes>>
       \/ /\ dImages # <<>>
          /\ dImages' = Tail(dImages)
          /\ UNCHANGED <<dContainers, dNetworks, dVolumes>>
       \/ /\ dNetworks' = dNetworks + 1
          /\ UNCHANGED <<dContainers, dImages, dVolumes>>
       \/ /\ dVolumes > 0
          /\ dVolumes' = dVolumes - 1
          /\ UNCHANGED <<dContainers, dImages, dNetworks>>
    /\ instants' = Append(instants, Instant')
    /\ UNCHANGED <<resp, stats, served, failures, serverUp, statsStep, listed, atCall>>
    /\ UNCHANGED <<servicesVars, clientVars, relayVars, hostVars, mainVars, fetchVars,
                   periodicVars, overlapVars,
                   containerLogsVars, serviceLogsVars, detailVars>>

\* The next list call of GetSystemStats: an error ends the request with a
\* 500, the fourth result ends it with the stats built from the four results.
ListCall ==
    /\ statsStep \in 1..4
    /\ \E err \in {Nil} \cup ErrTexts :
          LET got == Append(listed, ListResult(statsStep, Instant, instants[1]))
              calls == Nils(statsStep - 1) \o <<err>>
          IN /\ listed' = IF err = Nil THEN got ELSE listed
             /\ atCall' = Append(atCall, Instant)
             /\ statsStep' = IF err = Nil /\ statsStep < 4 THEN statsStep + 1 ELSE 5
             /\ resp' = IF err # Nil THEN HttpError("GetSystemStats", <<err>>, calls)
                        ELSE IF statsStep = 4 THEN HttpOK("GetSystemStats", "json:stats", calls)
                        ELSE resp
             /\ stats' = IF err = Nil /\ statsStep = 4
                         THEN <<BuildStats(got[1], got[2], got[3], got[4])>> ELSE stats
             /\ served' = IF statsStep' = 5 THEN served + 1 ELSE served
             /\ failures' = IF err # Nil THEN failures + 1 ELSE failures
    /\ UNCHANGED <<dContainers, dImages, dNetworks, dVolumes, serverUp, instants>>
    /\ UNCHANGED <<servicesVars, clientVars, relayVars, hostVars, mainVars, fetchVars,
                   periodicVars, overlapVars,
                   containerLogsVars, serviceLogsVars, detailVars>>

SnapshotNext == DaemonChange \/ ListCall

(***************************************************************************)
(* ------------------------- overlapping stats fetches ------------------- *)
(* loadDashboardData (tab load, fallback timer) and refreshDashboardStats   *)
(* (events) both fetch /api/system/stats and hand the parsed response to    *)
(* updateDashboardStats.  Nothing numbers, aborts or deduplicates them.     *)
(***************************************************************************)
StatsCallers == {"loadDashboardData", "refreshDashboardStats"}

OverlapInit ==
    /\ daemonVersion = 0
    /\ requests = <<>>
    /\ shown = <<0, 0>>

OverlapIdle == OverlapInit

\* fetch('/api/system/stats') is called, whatever is already in flight.
IssueStatsFetch(caller) ==
    /\ Len(requests) < MaxFetches
    /\ requests' = Append(requests, <<"sent", 0, caller>>)
    /\ UNCHANGED <<daemonVersion, shown>>
    /\ UNCHANGED <<gatewayVars, servicesVars, clientVars, relayVars, hostVars, mainVars,
                   fetchVars, periodicVars, snapshotVars,
                   containerLogsVars, serviceLogsVars, detailVars>>

\* The daemon's state changes.
DaemonAdvance ==
    /\ daemonVersion < MaxChanges
    /\ daemonVersion' = daemonVersion + 1
    /\ UNCHANGED <<requests, shown>>
    /\ UNCHANGED <<gatewayVars, servicesVars, clientVars, relayVars, hostVars, mainVars,
                   fetchVars, periodicVars, snapshotVars,
                   containerLogsVars, serviceLogsVars, detailVars>>

\* The gateway answers request i from the daemon's state of that moment.
ServerAnswers(i) ==
    /\ requests[i][1] = "sent"
    /\ requests' = [requests EXCEPT ![i] = <<"answered", daemonVersion, @[3]>>]
    /\ UNCHANGED <<daemonVersion, shown>>
    /\ UNCHANGED <<gatewayVars, servicesVars, clientVars, relayVars, hostVars, mainVars,
                   fetchVars, periodicVars, snapshotVars,
                   containerLogsVars, serviceLogsVars, detailVars>>

\* The response of request i arrives: await resumes, updateDashboardStats(stats).
ResponseArrives(i) ==
    /\ requests[i][1] = "answered"
    /\ requests' = [requests EXCEPT ![i][1] = "shown"]
    /\ shown' = <<i, requests[i][2]>>
    /\ UNCHANGED daemonVersion
    /\ UNCHANGED <<gatewayVars, servicesVars, clientVars, relayVars, hostVars, mainVars,
                   fetchVars, periodicVars, snapshotVars,
                   containerLogsVars, serviceLogsVars, detailVars>>

\* The fetch of request i rejects: the catch block logs, the dashboard stays.
FetchRejects(i) ==
    /\ requests[i][1] \in {"sent", "answered"}
    /\ requests' = [requests EXCEPT ![i][1] = "failed"]
    /\ UNCHANGED <<daemonVersion, shown>>
    /\ UNCHANGED <<gatewayVars, servicesVars, clientVars, relayVars, hostVars, mainVars,
                   fetchVars, periodicVars, snapshotVars,
                   containerLogsVars, serviceLogsVars, detailVars>>

OverlapNext ==
    \/ \E caller \in StatsCallers : IssueStatsFetch(caller)
    \/ DaemonAdvance
    \/ \E i \in DOMAIN requests : ServerAnswers(i)
    \/ \E i \in DOMAIN requests : ResponseArrives(i)
    \/ \E i \in DOMAIN requests : FetchRejects(i)

(***************************************************************************)
(* ------------------------- container logs endpoint --------------------- *)
(* GetContainerLogs copies the daemon's log stream to the response with a   *)
(* Read/Write loop.  A byte is a string; a Read returns some bytes and an   *)
(* error (Nil for none), and may return both.                               *)
(***************************************************************************)
\* The results of one Read: up to two bytes, with or without an error.
Chunks == {<<>>, <<"a">>, <<"b", "c">>}

ReadErrors == {"EOF", "connection reset"}

\* The streams of the model: up to MaxReads reads without error, then one
\* with an error.
LogStreams ==
    {good \o <<<<last, err>>>> :
        good \in SeqsUpTo({<<chunk, Nil>> : chunk \in Chunks}, MaxReads),
        last \in Chunks, err \in ReadErrors}

\* tail := r.URL.Query().Get("tail"); if tail == "" { tail = "100" }
DefaultTail(tail) == IF tail = "" THEN "100" ELSE tail

\* The for loop of GetContainerLogs: break on the first Read that returns an
\* error, write the bytes of every Read before it.
RECURSIVE CopyLoop(_)
CopyLoop(reads) ==
    IF reads = <<>> THEN <<>>
    ELSE IF Head(reads)[2] # Nil THEN <<>>
    ELSE Head(reads)[1] \o CopyLoop(Tail(reads))

ContainerLogsInit ==
    /\ tailQuery \in {"", "50"}
    /\ logsOpenErr \in {Nil} \cup ErrTexts
    /\ logReads \in LogStreams
    /\ optionsTail = ""
    /\ logsBody = <<>>
    /\ logsStatus = 0

ContainerLogsIdle ==
    /\ tailQuery = ""
    /\ logsOpenErr = Nil
    /\ logReads = <<>>
    /\ optionsTail = ""
    /\ logsBody = <<>>
    /\ logsStatus = 0

\* The handler GetContainerLogs.
GetContainerLogs ==
    /\ logsStatus = 0
    /\ optionsTail' = DefaultTail(tailQuery)
    /\ logsStatus' = IF logsOpenErr # Nil THEN 500 ELSE 200
    /\ logsBody' = IF logsOpenErr # Nil THEN <<logsOpenErr, "\n">> ELSE CopyLoop(logReads)
    /\ UNCHANGED <<tailQuery, logsOpenErr, logReads>>
    /\ UNCHANGED <<gatewayVars, servicesVars, clientVars, relayVars, hostVars, mainVars,
                   fetchVars>>
    /\ UNCHANGED <<periodicVars, snapshotVars, overlapVars, serviceLogsVars, detailVars>>

ContainerLogsNext == GetContainerLogs

(***************************************************************************)
(* -------------------------- service logs endpoint ---------------------- *)
(* GetSystemdServiceLogs runs journalctl with cmd.Output(), which returns   *)
(* when the subprocess has terminated.  The subprocess runs beside the      *)
(* handler: the handler is one step up to the start of the subprocess and   *)
(* one step from the return of cmd.Output().                                *)
(***************************************************************************)
ServiceName == "nginx"

\* lines := r.URL.Query().Get("lines"); if lines == "" { lines = "100" };
\* follow := r.URL.Query().Get("follow") == "true"; the two exec.Command calls.
JournalArgsMutant(lines, follow) ==
    <<"-u", ServiceName, "--no-pager", "-n", lines>>
        \o (IF follow = "true" THEN <<"-f">> ELSE <<>>) \o <<"--output=short">>

JournalArgs(lines, follow) ==
    <<"-u", ServiceName, "--no-pager", "-n", IF lines = "" THEN "100" ELSE lines>>
        \o (IF follow = "true" THEN <<"-f">> ELSE <<>>) \o <<"--output=short">>

JournalLines == {"Started nginx.", "Stopped nginx."}

ServiceLogsInit ==
    /\ linesQuery \in {"", "50"}
    /\ followQuery \in {"", "true", "1"}
    /\ journalArgs = <<>>
    /\ journalProc = "none"
    /\ journalOut = <<>>
    /\ svcLogsBody = <<>>
    /\ svcLogsStatus = 0

ServiceLogsIdle ==
    /\ linesQuery = ""
    /\ followQuery = ""
    /\ journalArgs = <<>>
    /\ journalProc = "none"
    /\ journalOut = <<>>
    /\ svcLogsBody = <<>>
    /\ svcLogsStatus = 0

\* The handler up to cmd.Output(): the subprocess is started.
StartJournal ==
    /\ journalProc = "none"
    /\ svcLogsStatus = 0
    /\ journalArgs' = JournalArgs(linesQuery, followQuery)
    /\ journalProc' = "running"
    /\ UNCHANGED <<linesQuery, followQuery, journalOut, svcLogsBody, svcLogsStatus>>
    /\ UNCHANGED <<gatewayVars, servicesVars, clientVars, relayVars, hostVars, mainVars,
                   fetchVars>>
    /\ UNCHANGED <<periodicVars, snapshotVars, overlapVars, containerLogsVars, detailVars>>

\* The subprocess writes a line to its stdout, which cmd.Output() buffers.
JournalPrints(line) ==
    /\ journalProc = "running"
    /\ Len(journalOut) < MaxJournalLines
    /\ journalOut' = Append(journalOut, line)
    /\ UNCHANGED <<linesQuery, followQuery, journalArgs, journalProc, svcLogsBody,
                   svcLogsStatus>>
    /\ UNCHANGED <<gatewayVars, servicesVars, clientVars, relayVars, hostVars, mainVars,
                   fetchVars>>
    /\ UNCHANGED <<periodicVars, snapshotVars, overlapVars, containerLogsVars, detailVars>>

\* The subprocess terminates, with exit status 0 or not (a signal included).
JournalExits(ok) ==
    /\ journalProc = "running"
    /\ journalProc' = IF ok THEN "exited" ELSE "failed"
    /\ UNCHANGED <<linesQuery, followQuery, journalArgs, journalOut, svcLogsBody,
                   svcLogsStatus>>
    /\ UNCHANGED <<gatewayVars, servicesVars, clientVars, relayVars, hostVars, mainVars,
                   fetchVars>>
    /\ UNCHANGED <<periodicVars, snapshotVars, overlapVars, containerLogsVars, detailVars>>

\* The handler from the return of cmd.Output(): http.Error or w.Write(output).
WriteServiceLogs ==
    /\ journalProc \in {"exited", "failed"}
    /\ svcLogsStatus = 0
    /\ svcLogsStatus' = IF journalProc = "failed" THEN 500 ELSE 200
    /\ svcLogsBody' = IF journalProc = "failed"
                        THEN <<"Failed to get service logs: ", "exit status 1", "\n">>
                        ELSE journalOut
    /\ UNCHANGED <<linesQuery, followQuery, journalArgs, journalProc, journalOut>>
    /\ UNCHANGED <<gatewayVars, servicesVars, clientVars, relayVars, hostVars, mainVars,
                   fetchVars>>
    /\ UNCHANGED <<periodicVars, snapshotVars, overlapVars, containerLogsVars, detailVars>>

ServiceLogsNext ==
    \/ StartJournal
    \/ \E line \in JournalLines : JournalPrints(line)
    \/ \E ok \in BOOLEAN : JournalExits(ok)
    \/ WriteServiceLogs

(***************************************************************************)
(* ------------------------- service detail endpoint --------------------- *)
(* service.GetSystemdServiceDetail runs `systemctl status`, `systemctl      *)
(* show` and `journalctl` one after the other and parses their output.  A   *)
(* line is a sequence of pieces as above, with ";" and "=" pieces of their  *)
(* own.  A subprocess run is <<err, lines>>: cmd.Output() returns what the  *)
(* subprocess wrote to stdout together with its error.                      *)
(***************************************************************************)
\* strings.Contains(line, sub) for a sub of whole pieces.
Contains(line, sub) ==
    \E i \in 1..(Len(line) - Len(sub) + 1) : SubSeq(line, i, i + Len(sub) - 1) = sub

\* strings.TrimPrefix(line, prefix) for a prefix of one piece.
TrimPrefix(line, prefix) ==
    IF line # <<>> /\ Head(line) = prefix THEN Tail(line) ELSE line

\* strings.Split(line, sep)[0]: the pieces before the first sep.
RECURSIVE BeforeFirst(_, _)
BeforeFirst(line, sep) ==
    IF line = <<>> \/ Head(line) = sep THEN <<>>
    ELSE <<Head(line)>> \o BeforeFirst(Tail(line), sep)

\* The pieces after the first sep; the line has one.
RECURSIVE AfterFirst(_, _)
AfterFirst(line, sep) ==
    IF Head(line) = sep THEN Tail(line) ELSE AfterFirst(Tail(line), sep)

\* strings.Trim(word, "()") on the words of the model.
TrimParens(word) ==
    CASE word = "(running)" -> "running"
      [] word = "(dead)" -> "dead"
      [] OTHER -> word

\* models.SystemdService{Name: serviceName}
NewService(serviceName) ==
    [Unit |-> "", Name |-> serviceName, LoadState |-> "", ActiveState |-> "",
     SubState |-> "", Description |-> <<>>, Type |-> <<>>, MainPID |-> "",
     Memory |-> <<>>, Tasks |-> <<>>]

\* The word after the first "PID:" that has a word after it, "" if there is none.
RECURSIVE WordAfterPID(_)
WordAfterPID(parts) ==
    IF Len(parts) < 2 THEN ""
    ELSE IF Head(parts) = "PID:" THEN parts[2]
    ELSE WordAfterPID(Tail(parts))

\* The body of the loop over the lines of the status output: <<TRUE, service>>,
\* or <<FALSE, service>> when the index expression panics.
ParseStatusLine(service, rawLine) ==
    LET line == TrimSpace(rawLine)
    IN IF Contains(line, <<"Loaded:">>)
       THEN LET loadPart == TrimSpace(TrimPrefix(BeforeFirst(line, ";"), "Loaded:"))
            IN IF Len(Fields(loadPart)) = 0
               THEN <<FALSE, service>>
               ELSE <<TRUE, [service EXCEPT !.LoadState = Fields(loadPart)[1]]>>
       ELSE IF Contains(line, <<"Active:">>)
       THEN LET activeFields == Fields(TrimSpace(TrimPrefix(line, "Active:")))
            IN IF Len(activeFields) >= 2
               THEN <<TRUE, [service EXCEPT !.ActiveState = activeFields[1],
                                            !.SubState = TrimParens(activeFields[2])]>>
               ELSE <<TRUE, service>>
       ELSE IF Contains(line, <<"Main", " ", "PID:">>)
       THEN LET pid == WordAfterPID(Fields(line))
            IN IF pid # "" THEN <<TRUE, [service EXCEPT !.MainPID = pid]>>
               ELSE <<TRUE, service>>
       ELSE <<TRUE, service>>

RECURSIVE ParseStatus(_, _)
ParseStatus(service, lines) ==
    IF lines = <<>> THEN <<TRUE, service>>
    ELSE LET one == ParseStatusLine(service, Head(lines))
         IN IF one[1] THEN ParseStatus(one[2], Tail(lines)) ELSE one

\* make(map[string]string)
EmptyMap == [key \in {} |-> <<>>]

\* properties[parts[0]] = parts[1]
Put(map, key, value) ==
    [k \in DOMAIN map \cup {key} |-> IF k = key THEN value ELSE map[k]]

\* The scanner loop over the show output.
RECURSIVE ScanProperties(_, _)
ScanProperties(map, lines) ==
    IF lines = <<>> THEN map
    ELSE LET line == Head(lines)
             next == IF "=" \in Range(line)
                     THEN Put(map, BeforeFirst(line, "="), AfterFirst(line, "="))
                     ELSE map
         IN ScanProperties(next, Tail(lines))

\* The properties the show run yields: those of its output, whatever its error.
PropertiesOfMutant(run) == ScanProperties(EmptyMap, run[2])

\* The properties the show run yields: none when it failed.
PropertiesOf(run) == IF run[1] = Nil THEN ScanProperties(EmptyMap, run[2]) ELSE EmptyMap

\* if desc, ok := properties["Description"]; ok { ... } and the three after it.
ExtractProperties(service, map) ==
    LET get(key, old) == IF <<key>> \in DOMAIN map THEN map[<<key>>] ELSE old
    IN [service EXCEPT !.Description = get("Description", @),
                       !.Type = get("Type", @),
                       !.Memory = get("MemoryCurrent", @),
                       !.Tasks = get("TasksCurrent", @)]

\* The loop over the lines of the journal output.
NonBlank(lines) == SelectSeq(lines, LAMBDA line : TrimSpace(line) # <<>>)

\* service.GetSystemdServiceDetail and the handler around it:
\* <<outcome, the detail if one is returned>>.  A Go map is a sequence of at
\* most one function, <<>> being the nil map.
ServiceGetSystemdServiceDetail(serviceName, status, show, logs) ==
    IF status[1] # Nil THEN <<"error", <<>>>>
    ELSE LET parsed == ParseStatus(NewService(serviceName), status[2])
             properties == PropertiesOf(show)
             service == IF show[1] = Nil
                        THEN ExtractProperties(parsed[2], properties)
                        ELSE parsed[2]
         IN IF ~parsed[1] THEN <<"panic", <<>>>>
            ELSE <<"ok", <<[Service |-> service,
                            Status |-> status[2],
                            Logs |-> NonBlank(logs[2]),
                            Props |-> <<properties>>]>>>>

\* Lines of `systemctl status`.
StatusLines ==
    { <<"  ", "Loaded:", " ", "loaded", " ", "(/lib/systemd/system/nginx.service", ";",
        " ", "enabled)">>,
      <<"  ", "Loaded:">>,
      <<"  ", "Active:", " ", "active", " ", "(running)", " ", "since", " ", "Mon">>,
      <<"  ", "Active:", " ", "inactive">>,
      <<" ", "Main", " ", "PID:", " ", "42", " ", "(nginx)">>,
      <<" ", "Main", " ", "PID:">>,
      <<"nginx.service", " ", "-", " ", "web", " ", "server">> }

\* Lines of `systemctl show`.
ShowLines ==
    { <<"Description", "=", "web", " ", "server">>,
      <<"Type", "=", "simple">>,
      <<"Requires">> }

\* Lines of `journalctl`.
LogLines == { <<"Started", " ", "nginx.">>, <<"  ">> }

ExitErrors == {"exit status 1"}

DetailInit ==
    /\ statusRun \in ({Nil} \X SeqsUpTo(StatusLines, MaxStatusLines))
                        \cup (ExitErrors \X {<<>>})
    /\ showRun \in ({Nil} \cup ExitErrors) \X SeqsUpTo(ShowLines, MaxShowLines)
    /\ logsRun \in ({Nil} \cup ExitErrors) \X SeqsUpTo(LogLines, MaxLogLines)
    /\ detail = <<>>
    /\ detailOutcome = "none"

DetailIdle ==
    /\ statusRun = <<Nil, <<>>>>
    /\ showRun = <<Nil, <<>>>>
    /\ logsRun = <<Nil, <<>>>>
    /\ detail = <<>>
    /\ detailOutcome = "none"

\* The handler GetSystemdServiceDetail: 500 on an error, the detail as JSON
\* otherwise; a panic ends the request without a response.
HandleServiceDetail ==
    /\ detailOutcome = "none"
    /\ LET result == ServiceGetSystemdServiceDetail(ServiceName, statusRun, showRun, logsRun)
       IN /\ detailOutcome' = result[1]
          /\ detail' = result[2]
    /\ UNCHANGED <<statusRun, showRun, logsRun>>
    /\ UNCHANGED <<gatewayVars, servicesVars, clientVars, relayVars, hostVars, mainVars,
                   fetchVars>>
    /\ UNCHANGED <<periodicVars, snapshotVars, overlapVars, containerLogsVars,
                   serviceLogsVars>>

DetailNext == HandleServiceDetail

\* The components of the later sections, idle.
MoreIdle ==
    /\ PeriodicIdle /\ SnapshotIdle /\ OverlapIdle
    /\ ContainerLogsIdle /\ ServiceLogsIdle /\ DetailIdle

\* The components a specification of an earlier section leaves idle.
RestIdle == HostIdle /\ MainIdle /\ FetchIdle /\ MoreIdle

(***************************************************************************)
(* ---------------------------- specifications --------------------------- *)
(***************************************************************************)
\* Requests to the stats endpoint, over the daemon's container lists.
StatsSpecInit == StatsInit /\ ServicesIdle /\ ClientIdle /\ RelayIdle /\ RestIdle

StatsNext == GetSystemStats

SpecStats == StatsSpecInit /\ [][StatsNext]_vars

\* The gateway answering requests.
GatewaySpecInit == GatewayInit /\ ServicesIdle /\ ClientIdle /\ RelayIdle /\ RestIdle

SpecGateway == GatewaySpecInit /\ [][GatewayNext]_vars

\* One call of GetSystemdServices on some subprocess output.
ServicesSpecInit == GatewayIdle /\ ServicesInit /\ ClientIdle /\ RelayIdle /\ RestIdle

SpecServices == ServicesSpecInit /\ [][ServicesNext]_vars

\* The browser client from page load: tabs, sockets and reconnect timers.
SocketsSpecInit == GatewayIdle /\ ServicesIdle /\ ClientInit /\ RelayIdle /\ RestIdle

SpecSockets == SocketsSpecInit /\ [][SocketsNext]_vars

\* The browser client receiving events, from page load or with a stream that
\* is nearly full.
EventsSpecInit ==
    GatewayIdle /\ ServicesIdle /\ (ClientInit \/ ClientInitFilled) /\ RelayIdle /\ RestIdle

SpecEvents == EventsSpecInit /\ [][EventsNext]_vars

\* The browser client receiving events as time passes.
CooldownSpecInit == GatewayIdle /\ ServicesIdle /\ ClientInit /\ RelayIdle /\ RestIdle

SpecCooldown == CooldownSpecInit /\ [][CooldownNext]_vars

\* The two relay loops; a handler whose select has a ready case runs it.
RelaySpecInit == GatewayIdle /\ ServicesIdle /\ ClientIdle /\ RelayInit /\ RestIdle

SpecRelay ==
    /\ RelaySpecInit
    /\ [][RelayNext]_vars
    /\ \A r \in Relays : WF_vars(RelayError(r))

\* One request for the host snapshot, over contents of the /proc files.
HostSpecInit ==
    GatewayIdle /\ ServicesIdle /\ ClientIdle /\ RelayIdle /\ HostInit /\ MainIdle /\ FetchIdle
        /\ MoreIdle

SpecHost == HostSpecInit /\ [][HostNext]_vars

\* The process from its start to the requests it serves.
MainSpecInit ==
    GatewayIdle /\ ServicesIdle /\ ClientIdle /\ RelayIdle /\ HostIdle /\ MainInit /\ FetchIdle
        /\ MoreIdle

SpecMain == MainSpecInit /\ [][MainNext]_vars

\* Calls of the browser client's fetching functions.
FetchSpecInit ==
    GatewayIdle /\ ServicesIdle /\ ClientIdle /\ RelayIdle /\ HostIdle /\ MainIdle /\ FetchInit
        /\ MoreIdle

SpecFetch == FetchSpecInit /\ [][FetchNext]_vars

\* The page with its interval timers, over several minutes.
PeriodicSpecInit ==
    /\ GatewayIdle /\ ServicesIdle /\ ClientInit /\ RelayIdle
    /\ HostIdle /\ MainIdle /\ FetchIdle
    /\ PeriodicInit /\ SnapshotIdle /\ OverlapIdle
    /\ ContainerLogsIdle /\ ServiceLogsIdle /\ DetailIdle

SpecPeriodic == PeriodicSpecInit /\ [][PeriodicNext]_vars

\* One request for the stats while the daemon changes.
SnapshotSpecInit ==
    /\ GatewayInit /\ ServicesIdle /\ ClientIdle /\ RelayIdle
    /\ HostIdle /\ MainIdle /\ FetchIdle
    /\ PeriodicIdle /\ SnapshotInit /\ OverlapIdle
    /\ ContainerLogsIdle /\ ServiceLogsIdle /\ DetailIdle

SpecSnapshot == SnapshotSpecInit /\ [][SnapshotNext]_vars

\* The dashboard with several stats fetches in flight.
OverlapSpecInit ==
    /\ GatewayIdle /\ ServicesIdle /\ ClientIdle /\ RelayIdle
    /\ HostIdle /\ MainIdle /\ FetchIdle
    /\ PeriodicIdle /\ SnapshotIdle /\ OverlapInit
    /\ ContainerLogsIdle /\ ServiceLogsIdle /\ DetailIdle

SpecOverlap == OverlapSpecInit /\ [][OverlapNext]_vars

\* One request for the logs of a container.
ContainerLogsSpecInit ==
    /\ GatewayIdle /\ ServicesIdle /\ ClientIdle /\ RelayIdle
    /\ HostIdle /\ MainIdle /\ FetchIdle
    /\ PeriodicIdle /\ SnapshotIdle /\ OverlapIdle
    /\ ContainerLogsInit /\ ServiceLogsIdle /\ DetailIdle

SpecContainerLogs == ContainerLogsSpecInit /\ [][ContainerLogsNext]_vars

\* One request for the logs of a service.
ServiceLogsSpecInit ==
    /\ GatewayIdle /\ ServicesIdle /\ ClientIdle /\ RelayIdle
    /\ HostIdle /\ MainIdle /\ FetchIdle
    /\ PeriodicIdle /\ SnapshotIdle /\ OverlapIdle
    /\ ContainerLogsIdle /\ ServiceLogsInit /\ DetailIdle

SpecServiceLogs == ServiceLogsSpecInit /\ [][ServiceLogsNext]_vars

\* One request for the detail of a service.
DetailSpecInit ==
    /\ GatewayIdle /\ ServicesIdle /\ ClientIdle /\ RelayIdle
    /\ HostIdle /\ MainIdle /\ FetchIdle
    /\ PeriodicIdle /\ SnapshotIdle /\ OverlapIdle
    /\ ContainerLogsIdle /\ ServiceLogsIdle /\ DetailInit

SpecDetail == DetailSpecInit /\ [][DetailNext]_vars

(***************************************************************************)
(* ------------------------------ properties ----------------------------- *)
(***************************************************************************)
CountOf(S, containers) == Cardinality({i \in DOMAIN containers : containers[i] \in S})

\* C1: a successful stats response counts every container of the daemon's
\* list in exactly one of Running, Paused, Stopped: "running" in Running,
\* "paused" in Paused, every other string in Stopped, and
\* Running + Paused + Stopped = Total = the length of the list.
C1_StatsPartition ==
    (resp.handler = "GetSystemStats" /\ resp.status = 200) =>
        /\ Len(stats) = 1
        /\ stats[1].Running = CountOf({"running"}, dContainers)
        /\ stats[1].Paused = CountOf({"paused"}, dContainers)
        /\ stats[1].Stopped = CountOf(ContainerStates \ {"running", "paused"}, dContainers)
        /\ stats[1].Running + stats[1].Paused + stats[1].Stopped = stats[1].Total
        /\ stats[1].Total = Len(dContainers)

\* A stats response over a list with a running, a paused and an oddly
\* spelled container state.
C1_Witness ==
    /\ resp.handler = "GetSystemStats" /\ resp.status = 200
    /\ Len(stats) = 1
    /\ stats[1].Running >= 1 /\ stats[1].Paused >= 1
    /\ \E i \in DOMAIN dContainers : dContainers[i] \in {"Running", ""}

\* The sort key the listing is ordered by: running first, then sub_state,
\* then name.
ServiceKey(svc) ==
    <<IF svc.SubState = "running" THEN 0 ELSE 1, StrPos(svc.SubState), StrPos(svc.Name)>>

KeyLeq(k1, k2) ==
    \/ k1[1] < k2[1]
    \/ k1[1] = k2[1] /\ k1[2] < k2[2]
    \/ k1[1] = k2[1] /\ k1[2] = k2[2] /\ k1[3] <= k2[3]

Keys(svcs) == [i \in DOMAIN svcs |-> ServiceKey(svcs[i])]

IsPermutationOf(a, b) ==
    /\ Len(a) = Len(b)
    /\ \A x \in Range(a) \cup Range(b) :
          Cardinality({i \in DOMAIN a : a[i] = x}) = Cardinality({i \in DOMAIN b : b[i] = x})

NoKeyTies(svcs) ==
    \A i, j \in DOMAIN svcs : i # j => ServiceKey(svcs[i]) # ServiceKey(svcs[j])

\* The listing is a permutation of the accepted units in key order.
SortedListing ==
    /\ IsPermutationOf(services, ParseUnits(svcOutput))
    /\ \A i, j \in DOMAIN services :
          i < j => KeyLeq(ServiceKey(services[i]), ServiceKey(services[j]))

\* C2 as stated: the listing is sorted running first, then by sub_state, then
\* by name, is a permutation of the accepted units, and is the same for every
\* input order of the same units.
C2_Original ==
    svcPc = "done" =>
        /\ SortedListing
        /\ \A p \in Perms(svcOutput) : \A r \in SortSlice(ParseUnits(p)) : r = services

\* C2 amended: the listing is sorted running first, then by sub_state, then by
\* name, and is a permutation of the accepted units; for every input order of
\* the same units its sequence of (sub_state, name) keys is the same, and the
\* listing itself is the same when no two accepted units share both keys.
C2_Amended ==
    svcPc = "done" =>
        /\ SortedListing
        /\ \A p \in Perms(svcOutput) : \A r \in SortSlice(ParseUnits(p)) :
              /\ Keys(r) = Keys(services)
              /\ NoKeyTies(services) => r = services

\* The example of the claim: units b/exited, a/running, c/exited are listed a, b, c.
C2_Witness ==
    /\ svcPc = "done"
    /\ [i \in DOMAIN svcOutput |-> Head(svcOutput[i])] = <<"b.service", "a.service", "c.service">>
    /\ [i \in DOMAIN services |-> services[i].Name] = <<"a", "b", "c">>
    /\ [i \in DOMAIN services |-> services[i].SubState] = <<"running", "exited", "exited">>

\* C3: off the events tab a qualifying event triggers a refresh exactly when
\* no earlier event-triggered refresh lies less than 5 seconds back; an event
\* inside the window triggers no refresh (no fetch) but is still counted.  So
\* of three events at t, t + 1 s and t + 6 s the first and the third refresh.
C3_Cooldown ==
    /\ \A i \in DOMAIN gateLog :
          gateLog[i].passed <=>
              \A j \in 1..(i - 1) :
                  gateLog[j].passed => gateLog[i].at - gateLog[j].at >= refreshCooldown
    /\ (step.op = "event" /\ step.gate = "skipped") => step.fetches = {}
    /\ eventCount = delivered

\* Three qualifying events off the events tab, 1 s and 6 s after the first:
\* refresh, no refresh, refresh.
C3_Witness ==
    /\ currentTab # "events"
    /\ step.op = "event"
    /\ Len(gateLog) = 3
    /\ gateLog[2].at = gateLog[1].at + 1000
    /\ gateLog[3].at = gateLog[1].at + 6000
    /\ gateLog[1].passed /\ ~gateLog[2].passed /\ gateLog[3].passed
    /\ eventCount = 3

Live(socks) == {s \in DOMAIN socks : socks[s].rs \in {"CONNECTING", "OPEN"}}

\* C4: the client never has two sockets that are CONNECTING or OPEN at once.
C4_AtMostOneSocket == Cardinality(Live(sockets)) <= 1

\* C5: a socket that closeWebSocket has acted on has its handlers detached
\* and is closing or closed, and when its close event arrives, whatever the
\* tab then is, no reconnect is scheduled and no socket is created.
C5_NoReconnectAfterDetach ==
    /\ \A s \in detached :
          ~sockets[s].attached /\ sockets[s].rs \in {"CLOSING", "CLOSED"}
    /\ (step.op \in {"close", "error"} /\ step.sock \in detached) =>
          ~step.ran /\ step.scheduled = 0 /\ step.created = 0

\* The close event of a socket left on a tab switch arrives after the user has
\* returned to the events tab.
C5_Witness ==
    /\ step.op = "close"
    /\ step.sock \in detached
    /\ currentTab = "events"
    /\ timers = <<>>

\* C6: when the close event of a socket with its handlers attached arrives
\* while the events tab is current, exactly one reconnect timer is added, due
\* 5 seconds later; on any other tab none is added.  A timer fires no earlier
\* than it is due, is removed, and makes one setupWebSocket call.
C6_ReconnectOnDrop ==
    /\ [][\A s \in DOMAIN sockets :
             (sockets[s].rs # "CLOSED" /\ sockets'[s].rs = "CLOSED" /\ sockets[s].attached)
                 => timers' = IF currentTab = "events"
                              THEN Append(timers, now + reconnectDelay)
                              ELSE timers]_vars
    /\ [][Len(timers') < Len(timers)
             => /\ now >= Head(timers)
                /\ timers' = Tail(timers)
                /\ Len(sockets') <= Len(sockets) + 1]_vars
    /\ [][Len(timers') > Len(timers)
             => \E s \in DOMAIN sockets :
                   sockets[s].rs # "CLOSED" /\ sockets'[s].rs = "CLOSED"]_vars

\* A reconnect: the timer of a dropped connection has fired on the events tab
\* and opened a new socket.
C6_Witness ==
    /\ step.op = "timer"
    /\ step.created = 1
    /\ currentTab = "events"
    /\ now >= step.due

FirstN(seq, n) == SubSeq(seq, 1, IF Len(seq) < n THEN Len(seq) ELSE n)

\* C7: every event handed to handleDockerEvent increments the counter by
\* one, whatever the tab; it is put in front of the stream only on the events
\* tab, and the stream then keeps its first 100 children, the oldest dropped.
C7_EventLog ==
    /\ [][delivered' = delivered + 1
             => /\ eventCount' = eventCount + 1
                /\ IF currentTab = "events"
                   THEN stream' = FirstN(<<delivered'>> \o stream, LogCap)
                   ELSE stream' = stream]_vars
    /\ [](Len(stream) <= LogCap)

\* The stream is full, its newest event first, and the placeholder and the
\* oldest event have been evicted.
C7_Witness ==
    /\ step.op = "event"
    /\ Len(stream) = LogCap
    /\ stream[1] = delivered
    /\ stream[LogCap] = 3 - LogCap

Significant == {"start", "stop", "die", "destroy", "create"}

\* C8 as stated: past the cooldown, a container event refreshes the
\* containers view if that tab is active and always refreshes the dashboard
\* stats for start/stop/die/destroy/create; an image delete/untag refreshes
\* the dashboard stats; image, network and volume events refresh their own
\* tab only if it is active; nothing else is fetched.
C8_Original ==
    (step.op = "event" /\ step.gate = "passed") =>
        step.fetches =
            CASE step.type = "container" ->
                   (IF currentTab = "containers" /\ step.action \in Significant
                    THEN {"/api/containers"} ELSE {})
                   \cup (IF step.action \in Significant THEN {"/api/system/stats"} ELSE {})
              [] step.type = "image" ->
                   (IF currentTab = "images" THEN {"/api/images"} ELSE {})
                   \cup (IF step.action \in {"delete", "untag"}
                         THEN {"/api/system/stats"} ELSE {})
              [] step.type = "network" ->
                   IF currentTab = "networks" THEN {"/api/networks"} ELSE {}
              [] step.type = "volume" ->
                   IF currentTab = "volumes" THEN {"/api/volumes"} ELSE {}

\* C8 amended: past the cooldown the fetch depends on the active tab: the
\* dashboard re-fetches its stats for a container start/stop/die/destroy/create
\* and for an image delete/untag; the containers tab re-fetches the containers
\* for a container start/stop/die/destroy/create; the images, networks and
\* volumes tabs re-fetch their list for an image, network, volume event;
\* nothing else is fetched, and an event inside the cooldown fetches nothing.
C8_Amended ==
    step.op = "event" =>
        step.fetches =
            IF step.gate # "passed" THEN {}
            ELSE CASE currentTab = "dashboard" ->
                        IF \/ step.type = "container" /\ step.action \in Significant
                           \/ step.type = "image" /\ step.action \in {"delete", "untag"}
                        THEN {"/api/system/stats"} ELSE {}
                   [] currentTab = "containers" ->
                        IF step.type = "container" /\ step.action \in Significant
                        THEN {"/api/containers"} ELSE {}
                   [] currentTab = "images" ->
                        IF step.type = "image" THEN {"/api/images"} ELSE {}
                   [] currentTab = "networks" ->
                        IF step.type = "network" THEN {"/api/networks"} ELSE {}
                   [] currentTab = "volumes" ->
                        IF step.type = "volume" THEN {"/api/volumes"} ELSE {}
                   [] OTHER -> {}

\* A container start past the cooldown on the containers tab: the containers
\* are fetched, the dashboard stats are not.
C8_Witness ==
    /\ step.op = "event" /\ step.gate = "passed"
    /\ step.type = "container" /\ step.action = "start"
    /\ currentTab = "containers"
    /\ step.fetches = {"/api/containers"}

AnyFailed(calls) == \E i \in DOMAIN calls : calls[i] # Nil

SystemdHandlers ==
    {"GetSystemdServices", "GetSystemdServiceDetail", "StartSystemdService",
     "StopSystemdService", "RestartSystemdService", "EnableSystemdService",
     "DisableSystemdService"}

FailText(handler) ==
    CASE handler = "GetSystemdServices" -> "Failed to get services: "
      [] handler = "GetSystemdServiceDetail" -> "Failed to get service detail: "
      [] handler = "StartSystemdService" -> "Failed to start service: "
      [] handler = "StopSystemdService" -> "Failed to stop service: "
      [] handler = "RestartSystemdService" -> "Failed to restart service: "
      [] handler = "EnableSystemdService" -> "Failed to enable service: "
      [] handler = "DisableSystemdService" -> "Failed to disable service: "

\* The calls whose failure fails the request: all of them, except that the
\* container detail only needs its inspect call and the service detail only
\* its status subprocess (the first call of each).
RequiredFailed(r) ==
    IF r.handler \in {"GetContainerDetail", "GetSystemdServiceDetail"}
    THEN r.calls # <<>> /\ r.calls[1] # Nil
    ELSE AnyFailed(r.calls)

C10_RelayEndsOnError ==
    /\ \A r \in Relays :
          (relay[r].pc = "loop" /\ relay[r].sub = "errored") ~> (relay[r].pc = "done")
    /\ [](\A r \in Relays :
             relay[r].sub = "ended" =>
                 /\ relay[r].pc = "done"
                 /\ relay[r].conn = "closed"
                 /\ relay[r].reported = relay[r].err)
    /\ [][\A r \in Relays :
             relay[r].sub \in {"errored", "ended"} => relay'[r].sent = relay[r].sent]_vars

\* The WebSocket relay has forwarded an event and then ended on a daemon error.
C10_Witness ==
    /\ relay["ws"].pc = "done"
    /\ relay["ws"].sub = "ended"
    /\ relay["ws"].reported \in ErrTexts
    /\ Len(relay["ws"].sent) >= 1

\* The writes of relay r that failed: every event taken from the subscription
\* was either written to the sink or lost in a failed write.
FailedWrites(r) == relay[r].offered - Len(relay[r].sent)

\* C11: for both sinks the relay loop has returned once a write to the sink
\* has failed, and it takes no further event from the daemon subscription:
\* at most one write ever fails.
C11_RelayEndsOnWriteError ==
    \A r \in Relays :
        /\ FailedWrites(r) <= 1
        /\ FailedWrites(r) >= 1 => relay[r].pc = "done"

\* C12: once the request is cancelled (the client has gone) the relay loop of
\* that request ends, also when the daemon sends no further event and no error.
C12_RelayEndsOnCancel ==
    \A r \in Relays :
        (relay[r].pc = "loop" /\ ~relay[r].clientUp) ~> (relay[r].pc = "done")

\* The fields of the snapshot that come from each /proc file.
FieldsOf(file) ==
    CASE file = "/proc/uptime"  -> {"Uptime", "UptimeSeconds"}
      [] file = "/proc/loadavg" -> {"LoadAverage1", "LoadAverage5", "LoadAverage15"}
      [] file = "/proc/meminfo" -> {"MemoryTotal", "MemoryUsed", "MemoryAvailable", "MemoryUsedPct"}
      [] file = "/proc/net/tcp" -> {"NetworkConnections"}

\* The snapshot of the same /proc contents with every file readable.
AllReadable ==
    ServiceGetHostSystemInfo({}, procUptime, procLoadavg, procMeminfo, procNetTcp,
                             hostInfo[1].CPUCores)

\* C13: the snapshot is best-effort.  The request is answered 200 whatever
\* files are unreadable; the fields derived from an unreadable file are at
\* their zero value, and every field derived from a readable file has the
\* value it has when all four files are readable.
C13_BestEffortSnapshot ==
    hostStatus # 0 =>
        /\ hostStatus = 200
        /\ Len(hostInfo) = 1
        /\ hostInfo[1].CPUCores > 0
        /\ \A file \in ProcFiles : \A field \in FieldsOf(file) :
               hostInfo[1][field] = IF file \in procUnreadable THEN ZeroHostInfo[field]
                                    ELSE AllReadable[field]

\* /proc/net/tcp alone is unreadable: uptime, load averages and memory are
\* populated and NetworkConnections is 0.
C13_Witness ==
    /\ hostStatus = 200
    /\ procUnreadable = {"/proc/net/tcp"}
    /\ Len(procNetTcp) = MaxTcpPieces
    /\ hostInfo[1].NetworkConnections = 0
    /\ hostInfo[1].UptimeSeconds > 0
    /\ hostInfo[1].LoadAverage1 > 0
    /\ hostInfo[1].LoadAverage5 > 0
    /\ hostInfo[1].LoadAverage15 > 0
    /\ hostInfo[1].MemoryTotal > 0
    /\ hostInfo[1].MemoryAvailable > 0
    /\ hostInfo[1].MemoryUsed > 0

\* The kB figure of the last well-formed line of /proc/meminfo with the key;
\* 0 when there is none.
KiloBytes(key) ==
    LET hits == SelectSeq(procMeminfo,
                          LAMBDA line : /\ HasPrefix(line, key)
                                        /\ Len(Fields(line)) >= 2
                                        /\ ParseInt(Fields(line)[2]) # <<>>)
    IN IF hits = <<>> THEN 0 ELSE ParseInt(Fields(hits[Len(hits)])[2])[1]

\* C14: with /proc/meminfo readable, MemoryTotal is MemTotal * 1024,
\* MemoryAvailable is MemAvailable * 1024, MemoryUsed is their difference and
\* MemoryUsedPct is MemoryUsed / MemoryTotal * 100 (left at 0 when MemoryTotal
\* is 0, where the quotient has no value).
C14_MemoryFigures ==
    (hostStatus = 200 /\ "/proc/meminfo" \notin procUnreadable) =>
        LET info == hostInfo[1]
        IN /\ info.MemoryTotal = KiloBytes("MemTotal:") * 1024
           /\ info.MemoryAvailable = KiloBytes("MemAvailable:") * 1024
           /\ info.MemoryUsed = info.MemoryTotal - info.MemoryAvailable
           /\ info.MemoryTotal > 0 =>
                  info.MemoryUsedPct = <<info.MemoryUsed * 100, info.MemoryTotal>>
           /\ info.MemoryTotal = 0 => info.MemoryUsedPct[1] = 0

\* MemTotal: 1000 kB and MemAvailable: 400 kB give 614400 bytes used, 60 %.
C14_Witness ==
    /\ hostStatus = 200
    /\ "/proc/meminfo" \notin procUnreadable
    /\ KiloBytes("MemTotal:") = 1000
    /\ KiloBytes("MemAvailable:") = 400
    /\ hostInfo[1].MemoryUsed = 614400
    /\ hostInfo[1].MemoryUsedPct[1] = 60 * hostInfo[1].MemoryUsedPct[2]

\* The newline-separated segments of a text: one more than its newlines.
Segments(text) == Cardinality({i \in DOMAIN text : text[i] = "\n"}) + 1

\* C20: NetworkConnections is the number of newline-separated segments of
\* /proc/net/tcp minus 2 (header and trailing blank), floored at zero, for
\* every content of the file; it is never negative.
C20_NetworkConnections ==
    hostStatus = 200 =>
        /\ hostInfo[1].NetworkConnections >= 0
        /\ "/proc/net/tcp" \notin procUnreadable =>
               hostInfo[1].NetworkConnections
                   = IF Segments(procNetTcp) - 2 > 0 THEN Segments(procNetTcp) - 2 ELSE 0

\* An empty /proc/net/tcp: one segment, floored to 0 connections.
C20_Witness ==
    /\ hostStatus = 200
    /\ "/proc/net/tcp" \notin procUnreadable
    /\ procNetTcp = <<>>
    /\ hostInfo[1].NetworkConnections = 0

\* C15: the listen address is taken from the -port flag when it is not empty,
\* else from DOCKER_MANAGER_PORT when that is not empty, else it is the
\* default :8080, used exactly when both are empty.
C15_PortPrecedence ==
    listenAddr # <<>> =>
        /\ flagPort # "" => listenAddr = <<":", flagPort>>
        /\ (flagPort = "" /\ envPort # "") => listenAddr = <<":", envPort>>
        /\ (flagPort = "" /\ envPort = "") => listenAddr = <<":", "8080">>

\* Flag and environment variable are both set, to different ports, and the
\* server listens on the flag's.
C15_Witness ==
    /\ mainPc = "listening"
    /\ flagPort # ""
    /\ envPort # ""
    /\ flagPort # envPort
    /\ listenAddr = <<":", flagPort>>

\* C16: when the Docker client cannot be constructed the process exits
\* before it has an address, a router or a listener, and every request that
\* is ever handled finds the client constructed.
C16_FatalWithoutClient ==
    /\ newClientErr => (mainPc \in {"start", "exited"} /\ listenAddr = <<>>)
    /\ mainPc = "listening" => dockerClient = "client"
    /\ \A i \in DOMAIN handledBy : handledBy[i] = "client"

\* Construction failed and the process is gone, nothing listened or handled.
C16_Witness ==
    /\ newClientErr
    /\ mainPc = "exited"
    /\ dockerClient = "nil"
    /\ listenAddr = <<>>
    /\ handledBy = <<>>

\* C17: a call whose fetch fails raises no uncaught error, shows an error
\* notification, and issues no request twice.
C17_FetchFailureNotified ==
    fetchStep.outcome # "ok" =>
        /\ ~fetchStep.uncaught
        /\ fetchStep.notifications = <<"error">>
        /\ \A i, j \in DOMAIN fetchStep.issued :
               fetchStep.issued[i] = fetchStep.issued[j] => i = j

\* C18: each request has its own subscription, and what a client has been
\* sent is the events of its subscription, each one object, once, in the
\* order the subscription delivered them: the k-th object sent is the k-th
\* event delivered, and while writes to the client succeed every event
\* delivered so far has been sent.  Each step of a loop sends at most the one
\* event it has just received.
C18_ForwardedOnceInOrder ==
    /\ [](\A r \in Relays :
             /\ Len(relay[r].sent) <= relay[r].offered
             /\ \A k \in DOMAIN relay[r].sent : relay[r].sent[k] = k
             /\ relay[r].clientUp => Len(relay[r].sent) = relay[r].offered)
    /\ [][\A r \in Relays :
             \/ relay'[r].sent = relay[r].sent
             \/ /\ relay'[r].offered = relay[r].offered + 1
                /\ relay'[r].sent = Append(relay[r].sent, relay'[r].offered)]_vars

\* Both clients have been sent both events of their own subscriptions.
C18_Witness ==
    \A r \in Relays :
        /\ relay[r].offered = MaxRelayEvents
        /\ relay[r].sent = [k \in 1..MaxRelayEvents |-> k]

\* The unit lines of the output that have at least 4 white-space separated
\* fields.
AcceptedLines == {i \in DOMAIN svcOutput : Len(Fields(svcOutput[i])) >= 4}

\* What is left of a line after its first n fields and the white space
\* around them, as it stands in the line.
RECURSIVE DropFields(_, _)
DropFields(line, n) ==
    IF line = <<>> THEN <<>>
    ELSE IF IsSpace(Head(line)) THEN DropFields(Tail(line), n)
    ELSE IF n = 0 THEN TrimRight(line)
    ELSE DropFields(Tail(line), n - 1)

\* The words with one space between each two.
SingleSpaced(words) ==
    [k \in 1..(IF words = <<>> THEN 0 ELSE 2 * Len(words) - 1) |->
        IF k % 2 = 1 THEN words[(k + 1) \div 2] ELSE " "]

\* The listing has one service for each accepted line and none for the
\* others, with the line's first four fields and Describe(line) as description.
ListsAcceptedLines(Describe(_)) ==
    svcPc = "done" =>
        /\ Len(services) = Cardinality(AcceptedLines)
        /\ \A i \in AcceptedLines :
               \E j \in DOMAIN services :
                   LET fields == Fields(svcOutput[i])
                   IN /\ services[j].Unit = fields[1]
                      /\ services[j].LoadState = fields[2]
                      /\ services[j].ActiveState = fields[3]
                      /\ services[j].SubState = fields[4]
                      /\ services[j].Description = Describe(svcOutput[i])

\* C19 as stated: a line is listed exactly if it has at least 4 fields,
\* blank and shorter lines are skipped without failing the listing, and the
\* description is the rest of the line after the fourth field, verbatim.
C19_Original == ListsAcceptedLines(LAMBDA line : DropFields(line, 4))

\* C19 amended: as stated, except that the description is the fields after
\* the fourth joined by single spaces, so runs of white space inside it are
\* collapsed to one space.
C19_Amended ==
    ListsAcceptedLines(LAMBDA line : SingleSpaced(SubSeq(Fields(line), 5, Len(Fields(line)))))

\* A line whose description has two spaces between its words is listed next
\* to a blank line and a line of three fields, which are skipped.
C19_Witness ==
    /\ svcPc = "done"
    /\ Len(svcOutput) = 3
    /\ \E i \in DOMAIN svcOutput : Fields(svcOutput[i]) = <<>>
    /\ \E i \in DOMAIN svcOutput : Len(Fields(svcOutput[i])) = 3
    /\ Len(services) = 1
    /\ services[1].Description = <<"Service", " ", "B">>
    /\ \E i \in DOMAIN svcOutput : DropFields(svcOutput[i], 4) = <<"Service", "  ", "B">>

\* C29: whatever /proc/meminfo holds, the snapshot has
\* 0 <= MemoryUsed <= MemoryTotal and 0 <= MemoryUsedPct <= 100, and
\* MemoryUsedPct is 0 when MemoryTotal is 0.
C29_MemoryBounds ==
    hostStatus = 200 =>
        LET info == hostInfo[1]
        IN /\ 0 <= info.MemoryUsed
           /\ info.MemoryUsed <= info.MemoryTotal
           /\ 0 <= info.MemoryUsedPct[1]
           /\ info.MemoryUsedPct[1] <= 100 * info.MemoryUsedPct[2]
           /\ info.MemoryTotal = 0 => info.MemoryUsedPct[1] = 0

\* C25: while the current tab is not the events tab no socket whose handlers
\* are attached is CONNECTING or OPEN, and no step taken off the events tab
\* (a reconnect timer included) creates a socket.
C25_NoSocketOffEvents ==
    currentTab # "events" =>
        /\ \A s \in DOMAIN sockets :
               sockets[s].attached => sockets[s].rs \notin {"CONNECTING", "OPEN"}
        /\ step.created = 0

\* C26: lastRefreshTime advances only in a smartRefresh that issued at least
\* one fetch, so an event that fetches nothing starts no cooldown window.
C26_CooldownStartsOnFetch ==
    [][lastRefreshTime' # lastRefreshTime => step'.fetches # {}]_vars

\* The timing of the two interval timers and their independence of the
\* cooldown: the fallback callback runs at every multiple of 2 minutes after
\* page load and the host callback at every multiple of 30 seconds, none is
\* late or skipped, the host callback fetches the host metrics exactly when
\* the dashboard is current, no callback reads or writes lastRefreshTime, and
\* no other step moves a timer.
TimersRunThroughout ==
    /\ [](/\ now <= refreshDue
          /\ now <= hostInfoDue
          /\ (refreshDue - Epoch) % forceRefreshInterval = 0
          /\ (hostInfoDue - Epoch) % hostInfoInterval = 0
          /\ refreshDue - now <= forceRefreshInterval
          /\ hostInfoDue - now <= hostInfoInterval
          /\ step.op \in {"forceRefresh", "hostInfo"} => step.due = now
          /\ step.op = "hostInfo" =>
                 step.fetches = IF currentTab = "dashboard"
                                THEN {"/api/system/host"} ELSE {})
    /\ [][/\ refreshDue' # refreshDue =>
                 (step'.op = "forceRefresh" /\ refreshDue' = refreshDue + forceRefreshInterval)
          /\ hostInfoDue' # hostInfoDue =>
                 (step'.op = "hostInfo" /\ hostInfoDue' = hostInfoDue + hostInfoInterval)
          /\ step'.op \in {"forceRefresh", "hostInfo"} =>
                 lastRefreshTime' = lastRefreshTime]_vars

\* C22 as stated: in addition, every run of the fallback callback refreshes
\* the tab that is current, whichever it is.
C22_Original ==
    /\ TimersRunThroughout
    /\ [](step.op = "forceRefresh" =>
              (step.ran /\ step.fetches = LoadTabData(currentTab)))

\* C22 amended: the fallback callback refreshes the current tab (all of its
\* fetches, cooldown or not) unless that is the events tab, where it does
\* nothing.
C22_Amended ==
    /\ TimersRunThroughout
    /\ [](step.op = "forceRefresh" =>
              /\ step.ran <=> currentTab # "events"
              /\ step.fetches = IF currentTab = "events" THEN {}
                                ELSE LoadTabData(currentTab))

\* The fallback callback runs for the second time, inside the cooldown window
\* of an event handled at the same instant, and refreshes the containers tab.
C22_Witness ==
    /\ step.op = "forceRefresh"
    /\ step.due = Epoch + 2 * forceRefreshInterval
    /\ lastRefreshTime = now
    /\ currentTab = "containers"
    /\ step.fetches = {"/api/containers"}

\* C23: GetSystemStats takes no snapshot.  Each of the four totals of a
\* successful response is the size of its list at the moment of its own call,
\* whatever the daemon did between the calls.
C23_NoSnapshot ==
    (statsStep = 5 /\ resp.status = 200) =>
        /\ Len(atCall) = 4
        /\ Len(stats) = 1
        /\ LET s == stats[1]
           IN <<s.Total, s.Images, s.Networks, s.Volumes>>
                  = [k \in 1..4 |-> Totals(atCall[k])[k]]

\* A response whose four totals are the totals of the daemon at no instant
\* between the arrival of the request and the response.
C23_Witness ==
    /\ statsStep = 5
    /\ resp.status = 200
    /\ Len(instants) > 1
    /\ LET s == stats[1]
       IN \A i \in DOMAIN instants :
              Totals(instants[i]) # <<s.Total, s.Images, s.Networks, s.Volumes>>

\* C24: the snapshot on the dashboard is never older than a response that has
\* been displayed: it comes from the most recently issued of the fetches whose
\* response has arrived, also when an earlier fetch completes later.
C24_LatestIssuedShown ==
    \A i \in DOMAIN requests : requests[i][1] = "shown" => shown[1] >= i

\* All the bytes the Read calls returned, in order.
RECURSIVE AllBytes(_)
AllBytes(reads) == IF reads = <<>> THEN <<>> ELSE Head(reads)[1] \o AllBytes(Tail(reads))

\* C27: the tail handed to the daemon is the query's, 100 when absent, and
\* the body of a 200 response is every byte read from the log stream, in
\* order, the bytes of a final Read that also returned an error included.
C27_EveryByteWritten ==
    logsStatus # 0 =>
        /\ optionsTail = IF tailQuery = "" THEN "100" ELSE tailQuery
        /\ logsStatus = 200 => logsBody = AllBytes(logReads)

\* C21: the journalctl subprocess gets -n with the lines parameter, 100 when
\* absent, and -f exactly when follow is "true"; while the subprocess has not
\* terminated the response has no status and no byte, and the body of a 200
\* response is the whole output of the terminated subprocess.
C21_NothingBeforeExit ==
    /\ journalProc # "none" =>
        /\ Len(journalArgs) = IF followQuery = "true" THEN 7 ELSE 6
        /\ journalArgs[4] = "-n"
        /\ journalArgs[5] = (IF linesQuery = "" THEN "100" ELSE linesQuery)
        /\ (followQuery = "true") <=> (journalArgs[6] = "-f")
    /\ journalProc \in {"none", "running"} => svcLogsStatus = 0 /\ svcLogsBody = <<>>
    /\ svcLogsStatus = 200 => journalProc = "exited" /\ svcLogsBody = journalOut

\* A follow request whose subprocess has printed lines and still runs.
C21_Witness ==
    /\ followQuery = "true"
    /\ journalProc = "running"
    /\ "-f" \in Range(journalArgs)
    /\ Len(journalOut) = MaxJournalLines
    /\ svcLogsStatus = 0

\* C28: whatever the status text, a request whose `systemctl status` succeeded
\* returns a detail record; it never ends in a panic.
C28_NoPanic ==
    detailOutcome # "none" /\ statusRun[1] = Nil =>
        /\ detailOutcome = "ok"
        /\ Len(detail) = 1

\* C30: the request fails exactly when `systemctl status` fails; a returned
\* detail carries the status text and the fields parsed from it, an empty
\* non-nil property map when `systemctl show` failed, and as logs the
\* non-blank lines of whatever journalctl printed, none when it printed none;
\* neither a failure of show nor one of journalctl changes the outcome.
C30_PartialData ==
    detailOutcome # "none" =>
        /\ (detailOutcome = "error") <=> (statusRun[1] # Nil)
        /\ (detailOutcome = "error") <=> (detail = <<>> /\ detailOutcome # "panic")
        /\ detailOutcome = "panic" =>
               \E i \in DOMAIN statusRun[2] : "Loaded:" \in Range(statusRun[2][i])
        /\ detailOutcome = "ok" =>
            LET d == detail[1]
                parsed == ParseStatus(NewService(ServiceName), statusRun[2])[2]
            IN /\ d.Status = statusRun[2]
               /\ d.Service.Name = ServiceName
               /\ d.Service.LoadState = parsed.LoadState
               /\ d.Service.ActiveState = parsed.ActiveState
               /\ d.Service.SubState = parsed.SubState
               /\ d.Service.MainPID = parsed.MainPID
               /\ Len(d.Props) = 1
               /\ showRun[1] # Nil => DOMAIN d.Props[1] = {} /\ d.Service.Description = <<>>
               /\ \A i \in DOMAIN d.Logs : Fields(d.Logs[i]) # <<>>
               /\ Len(d.Logs) = Cardinality({i \in DOMAIN logsRun[2] : Fields(logsRun[2][i]) # <<>>})
               /\ logsRun[2] = <<>> => d.Logs = <<>>

\* show and journalctl both failed, journalctl after a line and a blank one,
\* and the detail is returned with fields parsed from the status text.
C30_Witness ==
    /\ detailOutcome = "ok"
    /\ showRun[1] # Nil /\ showRun[2] # <<>>
    /\ logsRun[1] # Nil /\ Len(logsRun[2]) = 2
    /\ Len(detail[1].Logs) = 1
    /\ detail[1].Service.LoadState = "loaded"
    /\ detail[1].Service.SubState = "running"

====
